---- MODULE Spec2Model ----
(***************************************************************************)
(* A model of videxer's indexing engine: the structure classifier, the     *)
(* hierarchical collector with its flattening rule, the metadata resolver, *)
(* the transcode part of the asset pipeline, the subtitle parser and the   *)
(* search-index tokenizer.                                                 *)
(*                                                                         *)
(* Python strings are modelled as sequences of one-character strings       *)
(* (<<"a", ".", "m", "p", "4">> is "a.mp4"), so that pathlib's stem and    *)
(* suffix, str.lower, str.strip and the regular expressions of the source  *)
(* are computed, character by character, as the source computes them.      *)
(* Python's None is the one-element sequence <<"None">>, whose element is  *)
(* no character.  A dict is a function whose DOMAIN is its set of keys.    *)
(***************************************************************************)
EXTENDS Integers, Sequences, FiniteSets, TLC

VARIABLES
    dirs,        \* the directories that exist under the root (paths from the root)
    files,       \* the regular files of the tree, metadata.json excepted
    sidecar,     \* per directory: its metadata.json (absent, unparsable, or a dict)
    unlistable,  \* the paths whose iterdir() raises: path -> the exception
    tdisk,       \* the files of <root>/.videxer/transcodes: name -> what it holds
    edits,       \* how many changes the environment made to the tree
    runs,        \* how many runs of build_index were started
    pc,          \* where the current run of build_index is
    gen,         \* generate_transcodes of the current run
    structure,   \* what detect_media_structure returned to the current run
    primary,     \* the 'media' file of every media group of the current run
    queue,       \* the media files _create_media_item is still to be called for
    raw,         \* path -> the item _create_media_item returned for it
    encodes,     \* the sources generate_video_transcode was called for, this run
    unlinkFailed,\* whether an unlink of this run raised
    encFailed,   \* the sources generate_video_transcode returned False for, this run
    prev,        \* the previous run: its flag, its sources, the disk it left
    processed,   \* processed_items as build_index leaves them
    result,      \* what build_index returned last
    adisk,       \* the names of the files of <root>/.videxer/thumbnails
    genThumbs,   \* generate_thumbnails of the current run
    genMotion,   \* generate_motion_thumbnails of the current run
    thumbReqs,   \* the calls of generate_video_thumbnail of this run: source, output
    procs,       \* the processes that run build_index side by side: where each is
    wpc,         \* where the caller of build_index is (cli, write_index_files)
    outs,        \* the output files: index.json, index.subtitles.json, index.html
    text,        \* the input of a pure function (a subtitle text, a name, a stem)
    out          \* its result

vars == <<dirs, files, sidecar, unlistable, tdisk, edits, runs, pc, gen, structure,
          primary, queue, raw, encodes, unlinkFailed, encFailed, prev, processed,
          result, adisk, genThumbs, genMotion, thumbReqs, procs, wpc, outs, text, out>>

treeVars == <<dirs, files, sidecar, unlistable>>
runVars == <<runs, pc, gen, structure, primary, queue, raw, encodes, unlinkFailed,
             encFailed, prev, processed, result>>
outVars == <<wpc, outs>>
pureVars == <<text, out>>
raceVars == <<procs>>
thumbVars == <<adisk, genThumbs, genMotion, thumbReqs>>

----------------------------------------------------------------------------
(* Characters and strings *)
\* Op applied to v: a value computed once and used under a name
With(v, Op(_)) == Op(v)

\* Python None, a value distinct from every string
None == <<"None">>

Truthy(v) == v # None /\ v # <<>>

Digits == {"0", "1", "2", "3", "4", "5", "6", "7", "8", "9"}

LowerLetters == {"a", "b", "c", "d", "e", "f", "g", "h", "i", "j", "k", "l", "m",
                 "n", "o", "p", "q", "r", "s", "t", "u", "v", "w", "x", "y", "z"}

UpperToLower == [A |-> "a", B |-> "b", C |-> "c", D |-> "d", E |-> "e", F |-> "f",
                 G |-> "g", H |-> "h", I |-> "i", J |-> "j", K |-> "k", L |-> "l",
                 M |-> "m", N |-> "n", O |-> "o", P |-> "p", Q |-> "q", R |-> "r",
                 S |-> "s", T |-> "t", U |-> "u", V |-> "v", W |-> "w", X |-> "x",
                 Y |-> "y", Z |-> "z"]

UpperLetters == DOMAIN UpperToLower

\* str.lower(), on one character and on a string
LowerChar(c) == IF c \in UpperLetters THEN UpperToLower[c] ELSE c

Lower(s) == [i \in 1..Len(s) |-> LowerChar(s[i])]

\* the characters of the model in code-point order, for Python's string comparison
CodePoints == <<"\n", " ", "-", ".", "/", "0", "1", "2", "3", "4", "5", "6", "7",
                "8", "9", ":", "<", ">", "A", "B", "C", "D", "E", "F", "G", "H", "I",
                "J", "K", "L", "M", "N", "O", "P", "Q", "R", "S", "T", "U", "V", "W",
                "X", "Y", "Z", "_", "a", "b", "c", "d", "e", "f", "g", "h", "i", "j",
                "k", "l", "m", "n", "o", "p", "q", "r", "s", "t", "u", "v", "w", "x",
                "y", "z">>

Ord(c) == CHOOSE i \in DOMAIN CodePoints : CodePoints[i] = c

\* s < t for Python strings (lexicographic by code point)
RECURSIVE StrLess(_, _)
StrLess(s, t) ==
    IF t = <<>> THEN FALSE
    ELSE IF s = <<>> THEN TRUE
    ELSE IF Head(s) = Head(t) THEN StrLess(Tail(s), Tail(t))
    ELSE Ord(Head(s)) < Ord(Head(t))

\* sorted(S) for a set of strings
RECURSIVE SortStrings(_)
SortStrings(S) ==
    IF S = {} THEN <<>>
    ELSE LET m == CHOOSE x \in S : \A y \in S \ {x} : StrLess(x, y)
         IN <<m>> \o SortStrings(S \ {m})

\* whether sub occurs in s at position i
OccursAt(sub, s, i) ==
    /\ i >= 1
    /\ i + Len(sub) - 1 <= Len(s)
    /\ \A k \in 1..Len(sub) : s[i + k - 1] = sub[k]

\* Python's `sub in s`
Contains(s, sub) == \E i \in 1..(Len(s) + 1) : OccursAt(sub, s, i)

StartsWith(s, p) == OccursAt(p, s, 1)

\* s[i..j], empty when j < i
Slice(s, i, j) == IF j < i THEN <<>> ELSE SubSeq(s, i, j)

\* str.strip(chars)
RECURSIVE LStrip(_, _)
LStrip(s, chars) ==
    IF s # <<>> /\ Head(s) \in chars THEN LStrip(Tail(s), chars) ELSE s

RECURSIVE RStrip(_, _)
RStrip(s, chars) ==
    IF s # <<>> /\ s[Len(s)] \in chars THEN RStrip(SubSeq(s, 1, Len(s) - 1), chars)
    ELSE s

Strip(s, chars) == RStrip(LStrip(s, chars), chars)

\* what str.strip() with no argument removes, among the model's characters
Whitespace == {" ", "\n"}

----------------------------------------------------------------------------
(* pathlib: the suffix and the stem of a file name *)

\* the position of the last "." of name, 0 if none
LastDot(name) ==
    LET ps == {i \in 1..Len(name) : name[i] = "."}
    IN IF ps = {} THEN 0 ELSE CHOOSE i \in ps : \A j \in ps : j <= i

\* PurePath.suffix: from the last dot, unless the dot is first or last
Suffix(name) ==
    LET i == LastDot(name)
    IN IF 1 < i /\ i < Len(name) THEN SubSeq(name, i, Len(name)) ELSE <<>>

\* PurePath.stem
Stem(name) ==
    LET i == LastDot(name)
    IN IF 1 < i /\ i < Len(name) THEN SubSeq(name, 1, i - 1) ELSE name

----------------------------------------------------------------------------
(* Media file extensions and file classification (utils.py) *)

VIDEO_EXTS == {<<".", "m", "p", "4">>, <<".", "m", "o", "v">>, <<".", "m", "k", "v">>, <<".", "m", "4", "v">>, <<".", "w", "e", "b", "m">>, <<".", "a", "v", "i">>,
               <<".", "w", "m", "v">>, <<".", "f", "l", "v">>, <<".", "m", "4", "a">>}

AUDIO_EXTS == {<<".", "m", "p", "3">>, <<".", "w", "a", "v">>, <<".", "f", "l", "a", "c">>, <<".", "a", "a", "c">>, <<".", "o", "g", "g">>, <<".", "m", "4", "a">>,
               <<".", "w", "m", "a">>}

IMAGE_EXTS == {<<".", "j", "p", "g">>, <<".", "j", "p", "e", "g">>, <<".", "p", "n", "g">>, <<".", "g", "i", "f">>, <<".", "b", "m", "p">>, <<".", "t", "i", "f", "f">>,
               <<".", "w", "e", "b", "p">>}

SUBTITLE_EXTS == {<<".", "s", "r", "t">>, <<".", "v", "t", "t">>, <<".", "a", "s", "s">>, <<".", "s", "s", "a">>, <<".", "s", "u", "b">>, <<".", "i", "d", "x">>}

ALL_MEDIA_EXTS == VIDEO_EXTS \cup AUDIO_EXTS \cup IMAGE_EXTS

\* suffix.lower() in ALL_MEDIA_EXTS
HasMediaSuffix(name) == Lower(Suffix(name)) \in ALL_MEDIA_EXTS

_determine_media_type(extension) ==
    LET ext == LStrip(Lower(extension), {"."})
    IN IF <<".">> \o ext \in VIDEO_EXTS THEN "video"
       ELSE IF <<".">> \o ext \in AUDIO_EXTS THEN "audio"
       ELSE IF <<".">> \o ext \in IMAGE_EXTS THEN "image"
       ELSE "unknown"

thumbnail_indicators == {<<"t", "h", "u", "m", "b">>, <<"t", "h", "u", "m", "b", "n", "a", "i", "l">>, <<"c", "o", "v", "e", "r">>, <<"p", "o", "s", "t", "e", "r">>,
                         <<"p", "r", "e", "v", "i", "e", "w">>, <<"a", "r", "t", "w", "o", "r", "k">>, <<"f", "o", "l", "d", "e", "r">>}

_is_thumbnail_file(filename) ==
    LET stem == Lower(Stem(filename))
    IN \E ind \in thumbnail_indicators :
          \/ stem = ind
          \/ Contains(stem, <<"_">> \o ind)
          \/ Contains(stem, ind \o <<"_">>)
          \/ Contains(stem, <<"-">> \o ind)
          \/ Contains(stem, ind \o <<"-">>)

\* entry.name.startswith('.')
IsHidden(name) == StartsWith(name, <<".">>)

----------------------------------------------------------------------------
(* The tree under the root.  A directory is its path from the root, a       *)
(* sequence of names; a file is [dir |-> its directory, name |-> its name]. *)

Root == <<>>

Parent(d) == SubSeq(d, 1, Len(d) - 1)

\* the immediate subdirectories of d
SubDirsOf(d) == {s \in dirs : Len(s) = Len(d) + 1 /\ Parent(s) = d}

\* the names of the regular files directly in d
FileNamesIn(d) == {f.name : f \in {g \in files : g.dir = d}}

\* a metadata.json: absent, present and unparsable, or a parsed dict
NoSidecar == [state |-> "none", md |-> [k \in {} |-> <<>>]]
\* a metadata.json cut short, {"name": "P", "description": "P": json.load raises,
\* md is what the text holds up to there
BadSidecar == [state |-> "bad", md |-> [name |-> <<"P">>, description |-> <<"P">>]]
OkSidecar(md) == [state |-> "ok", md |-> md]

\* dict.get(key) and dict.get(key, default)
Get(d, key) == IF key \in DOMAIN d THEN d[key] ELSE None
GetOr(d, key, default) == IF key \in DOMAIN d THEN d[key] ELSE default

\* d with d[key] = value set
Put(d, key, value) == [k \in DOMAIN d \cup {key} |-> IF k = key THEN value ELSE d[k]]

\* d with key removed (dict.pop(key, None))
Pop(d, key) == [k \in DOMAIN d \ {key} |-> d[k]]

----------------------------------------------------------------------------
(* detect_media_structure *)

\* detect_media_structure with an empty root taken for flat
detect_media_structure_empty_flat(root) ==
    LET has_flat_files == \E n \in FileNamesIn(root) : HasMediaSuffix(n)
        has_nested_dirs == \E entry \in SubDirsOf(root) :
                              \E p \in FileNamesIn(entry) : HasMediaSuffix(p)
    IN IF has_flat_files /\ has_nested_dirs THEN "mixed"
       ELSE IF has_nested_dirs THEN "nested"
       ELSE "flat"

detect_media_structure(root) ==
    LET has_flat_files == \E n \in FileNamesIn(root) : HasMediaSuffix(n)
        has_nested_dirs == \E entry \in SubDirsOf(root) :
                              \E p \in FileNamesIn(entry) : HasMediaSuffix(p)
    IN IF has_flat_files /\ has_nested_dirs THEN "mixed"
       ELSE IF has_flat_files THEN "flat"
       ELSE IF has_nested_dirs THEN "nested"
       ELSE "nested"

----------------------------------------------------------------------------
(* _group_related_files *)

\* the language suffixes that are removed from a subtitle's stem
LanguageSuffixes == {<<"e", "n">>, <<"e", "n", "g">>, <<"e", "n", "g", "l", "i", "s", "h">>, <<"e", "s">>, <<"s", "p", "a">>, <<"s", "p", "a", "n", "i", "s", "h">>,
                     <<"f", "r">>, <<"f", "r", "e", "n", "c", "h">>, <<"d", "e">>, <<"g", "e", "r", "m", "a", "n">>}

\* re.sub(r'\.(en|eng|...)$', '', stem, flags=re.IGNORECASE)
BaseStem(stem) ==
    LET i == LastDot(stem)
    IN IF i >= 1 /\ Lower(Slice(stem, i + 1, Len(stem))) \in LanguageSuffixes
       THEN Slice(stem, 1, i - 1)
       ELSE stem

\* the entries of d the grouping looks at: files, not hidden, not thumbnail-named
Grouped(d) == {n \in FileNamesIn(d) : ~IsHidden(n) /\ ~_is_thumbnail_file(n)}

MediaNamesIn(d) == {n \in Grouped(d) : HasMediaSuffix(n)}

SubtitleNamesIn(d) ==
    {n \in Grouped(d) : ~HasMediaSuffix(n) /\ Lower(Suffix(n)) \in SUBTITLE_EXTS}

\* the keys of media_groups
GroupKeys(d) ==
    {Stem(n) : n \in MediaNamesIn(d)} \cup {BaseStem(Stem(n)) : n \in SubtitleNamesIn(d)}

\* The 'media' of a group is the first media file with that stem that iterdir()
\* yields; the order of iterdir() is the file system's.  A grouping is one choice
\* of such a first file per stem and directory.
Groupings ==
    {P \in SUBSET {f \in files : f.name \in MediaNamesIn(f.dir)} :
        /\ \A f \in files : f.name \in MediaNamesIn(f.dir) =>
              \E g \in P : g.dir = f.dir /\ Stem(g.name) = Stem(f.name)
        /\ \A f, g \in P : f.dir = g.dir /\ Stem(f.name) = Stem(g.name) => f = g}

\* the subtitle files of the group of media file f
SubtitlesOf(f) ==
    {g \in files : /\ g.dir = f.dir
                   /\ g.name \in SubtitleNamesIn(f.dir)
                   /\ BaseStem(Stem(g.name)) = Stem(f.name)}

\* sorted(current_dir.iterdir()), the directories that are not hidden
SortedSubdirs(d) ==
    LET names == {s[Len(s)] : s \in {t \in SubDirsOf(d) : ~IsHidden(t[Len(t)])}}
        sorted == SortStrings(names)
    IN [i \in 1..Len(sorted) |-> Append(d, sorted[i])]

\* the media files of d in the order of `for base_name, files in sorted(media_groups.items())`
SortedMedia(d, P) ==
    LET mine == {f \in P : f.dir = d}
        stems == SortStrings({Stem(f.name) : f \in mine})
    IN [i \in 1..Len(stems) |-> CHOOSE f \in mine : Stem(f.name) = stems[i]]

\* the order in which one run calls _create_media_item: a directory's own media
\* first, then its subdirectories in sorted order, recursively
RECURSIVE CreationOrder(_, _)
RECURSIVE CreationOrderOfAll(_, _)
CreationOrder(d, P) == SortedMedia(d, P) \o CreationOrderOfAll(SortedSubdirs(d), P)
CreationOrderOfAll(ds, P) ==
    IF ds = <<>> THEN <<>>
    ELSE CreationOrder(Head(ds), P) \o CreationOrderOfAll(Tail(ds), P)

----------------------------------------------------------------------------
(* Regular expressions of the source, on character sequences *)

\* str.split('\n')
RECURSIVE SplitLines(_)
SplitLines(s) ==
    LET ps == {i \in 1..Len(s) : s[i] = "\n"}
    IN IF ps = {} THEN <<s>>
       ELSE LET i == CHOOSE p \in ps : \A q \in ps : p <= q
            IN <<Slice(s, 1, i - 1)>> \o SplitLines(Slice(s, i + 1, Len(s)))

\* sep.join(strings)
RECURSIVE JoinWith(_, _)
JoinWith(strings, sep) ==
    IF strings = <<>> THEN <<>>
    ELSE IF Len(strings) = 1 THEN strings[1]
    ELSE strings[1] \o sep \o JoinWith(Tail(strings), sep)

\* '\n'.join(lines)
RECURSIVE JoinLines(_)
JoinLines(lines) ==
    IF lines = <<>> THEN <<>>
    ELSE IF Len(lines) = 1 THEN lines[1]
    ELSE lines[1] \o <<"\n">> \o JoinLines(Tail(lines))

\* the last position of the run of whitespace that starts at i (i - 1 if none)
RECURSIVE WsRunEnd(_, _)
WsRunEnd(s, i) ==
    IF i <= Len(s) /\ s[i] \in Whitespace THEN WsRunEnd(s, i + 1) ELSE i - 1

\* where a match of \n\s*\n that starts at i ends (0 if there is none): \s* is
\* greedy, so the match ends at the last newline of the whitespace after i
BlankMatchEnd(s, i) ==
    IF s[i] # "\n" THEN 0
    ELSE LET ps == {p \in (i + 1)..WsRunEnd(s, i + 1) : s[p] = "\n"}
         IN IF ps = {} THEN 0 ELSE CHOOSE p \in ps : \A q \in ps : q <= p

\* re.split(r'\n\s*\n', s)
RECURSIVE SplitBlocks(_)
SplitBlocks(s) ==
    LET starts == {i \in 1..Len(s) : BlankMatchEnd(s, i) # 0}
    IN IF starts = {} THEN <<s>>
       ELSE LET i == CHOOSE p \in starts : \A q \in starts : p <= q
            IN <<Slice(s, 1, i - 1)>>
                 \o SplitBlocks(Slice(s, BlankMatchEnd(s, i) + 1, Len(s)))

\* a pattern of fixed length: "#" stands for \d, any other character for itself
MatchesAt(pattern, s, i) ==
    /\ i >= 1
    /\ i + Len(pattern) - 1 <= Len(s)
    /\ \A k \in 1..Len(pattern) :
          IF pattern[k] = "#" THEN s[i + k - 1] \in Digits
          ELSE s[i + k - 1] = pattern[k]

\* re.search(pattern, s): the position of the leftmost match, 0 if none
SearchFixed(pattern, s) ==
    LET ps == {i \in 1..Len(s) : MatchesAt(pattern, s, i)}
    IN IF ps = {} THEN 0 ELSE CHOOSE p \in ps : \A q \in ps : p <= q

\* r'(\d{2}:\d{2}:\d{2},\d{3}) --> (\d{2}:\d{2}:\d{2},\d{3})'
SrtTimePattern == <<"#", "#", ":", "#", "#", ":", "#", "#", ",", "#", "#", "#">>
SrtCuePattern == SrtTimePattern \o <<" ", "-", "-", ">", " ">> \o SrtTimePattern

\* re.sub(open [^close]+ close, '', s): a tag is an `open`, at least one character
\* that is not `close`, and the first `close` after them
RECURSIVE RemoveTags(_, _, _)
RemoveTags(s, open, close) ==
    LET closeAfter(i) == {j \in (i + 1)..Len(s) : s[j] = close}
        firstClose(i) == CHOOSE j \in closeAfter(i) : \A k \in closeAfter(i) : j <= k
        starts == {i \in 1..Len(s) :
                      /\ s[i] = open
                      /\ closeAfter(i) # {}
                      /\ firstClose(i) >= i + 2}
    IN IF starts = {} THEN s
       ELSE LET i == CHOOSE p \in starts : \A q \in starts : p <= q
            IN Slice(s, 1, i - 1)
                 \o RemoveTags(Slice(s, firstClose(i) + 1, Len(s)), open, close)

----------------------------------------------------------------------------
(* _parse_srt *)

\* what one block adds to (text_lines, timestamps)
SrtBlock(block, acc) ==
    LET lines == SplitLines(Strip(block, Whitespace))
    IN IF Len(lines) < 3 THEN acc
       ELSE LET at == SearchFixed(SrtCuePattern, lines[2])
            IN IF at = 0 THEN acc
               ELSE LET start_time == SubSeq(lines[2], at, at + Len(SrtTimePattern) - 1)
                        joined == Strip(JoinLines(SubSeq(lines, 3, Len(lines))), Whitespace)
                        txt == RemoveTags(joined, "<", ">")
                    IN [text |-> IF txt # <<>> THEN Append(acc.text, txt) ELSE acc.text,
                        timestamps |-> Append(acc.timestamps, start_time)]

RECURSIVE SrtBlocks(_, _)
SrtBlocks(blocks, acc) ==
    IF blocks = <<>> THEN acc
    ELSE SrtBlocks(Tail(blocks), SrtBlock(Head(blocks), acc))

_parse_srt(content) ==
    SrtBlocks(SplitBlocks(Strip(content, Whitespace)), [text |-> <<>>, timestamps |-> <<>>])

----------------------------------------------------------------------------
(* _parse_vtt *)

\* r'(\d{2}:\d{2}:\d{2}\.\d{3}) --> (\d{2}:\d{2}:\d{2}\.\d{3})'
VttTimePattern == <<"#", "#", ":", "#", "#", ":", "#", "#", ".", "#", "#", "#">>
VttCuePattern == VttTimePattern \o <<" ", "-", "-", ">", " ">> \o VttTimePattern

\* the inner loop: the first line from i on that is blank or holds a timing,
\* Len(lines) + 1 if there is none
RECURSIVE VttTextEnd(_, _)
VttTextEnd(lines, i) ==
    IF /\ i <= Len(lines)
       /\ SearchFixed(VttCuePattern, Strip(lines[i], Whitespace)) = 0
       /\ Strip(lines[i], Whitespace) # <<>>
    THEN VttTextEnd(lines, i + 1)
    ELSE i

\* what a timing on line i adds to (text_lines, timestamps): its start time
\* always, the lines i + 1 .. j - 1 joined by spaces when they hold any text
VttCue(lines, i, j, at, acc) ==
    With(Strip(JoinWith([k \in 1..(j - i - 1) |-> Strip(lines[i + k], Whitespace)], <<" ">>),
               Whitespace),
         LAMBDA txt :
            [text |-> IF txt # <<>> THEN Append(acc.text, txt) ELSE acc.text,
             timestamps |-> Append(acc.timestamps,
                                   SubSeq(Strip(lines[i], Whitespace), at,
                                          at + Len(VttTimePattern) - 1))])

\* the outer loop from line i on
RECURSIVE VttLines(_, _, _)
VttLines(lines, i, acc) ==
    IF i > Len(lines) THEN acc
    ELSE LET line == Strip(lines[i], Whitespace)
         IN IF line \in {<<"W", "E", "B", "V", "T", "T">>, <<>>} \/ StartsWith(line, <<"N", "O", "T", "E">>)
            THEN VttLines(lines, i + 1, acc)
            ELSE IF SearchFixed(VttCuePattern, line) = 0
            THEN VttLines(lines, i + 1, acc)
            ELSE VttLines(lines, VttTextEnd(lines, i + 1),
                          VttCue(lines, i, VttTextEnd(lines, i + 1),
                                 SearchFixed(VttCuePattern, line), acc))

_parse_vtt(content) ==
    VttLines(SplitLines(content), 1, [text |-> <<>>, timestamps |-> <<>>])

----------------------------------------------------------------------------
(* _parse_ass *)

\* str.split(sep, maxsplit)
RECURSIVE SplitMax(_, _, _)
SplitMax(s, sep, maxsplit) ==
    LET ps == {i \in 1..Len(s) : s[i] = sep}
    IN IF maxsplit = 0 \/ ps = {} THEN <<s>>
       ELSE LET i == CHOOSE p \in ps : \A q \in ps : p <= q
            IN <<Slice(s, 1, i - 1)>> \o SplitMax(Slice(s, i + 1, Len(s)), sep, maxsplit - 1)

\* what one line adds to (text_lines, timestamps)
AssLine(line, acc) ==
    IF ~StartsWith(line, <<"D", "i", "a", "l", "o", "g", "u", "e", ":">>) THEN acc
    ELSE LET parts == SplitMax(line, ",", 9)
         IN IF Len(parts) < 10 THEN acc
            ELSE LET txt == RemoveTags(Strip(parts[10], Whitespace), "{", "}")
                 IN [text |-> IF txt # <<>> THEN Append(acc.text, txt) ELSE acc.text,
                     timestamps |-> Append(acc.timestamps, parts[2])]

RECURSIVE AssLines(_, _)
AssLines(lines, acc) ==
    IF lines = <<>> THEN acc
    ELSE AssLines(Tail(lines), AssLine(Strip(Head(lines), Whitespace), acc))

_parse_ass(content) ==
    AssLines(SplitLines(content), [text |-> <<>>, timestamps |-> <<>>])

----------------------------------------------------------------------------
(* _parse_sub and _parse_generic_subtitle *)

\* str.isdigit(), among the model's characters
IsDigit(s) == s # <<>> /\ \A i \in 1..Len(s) : s[i] \in Digits

\* s with the characters of chars taken out
Replaced(s, chars) == SelectSeq(s, LAMBDA c : c \notin chars)

\* every line that is not empty and, its `ignored` characters taken out, not a
\* number is a text, and its timestamp is the empty string
RECURSIVE TextLines(_, _, _)
TextLines(lines, ignored, acc) ==
    IF lines = <<>> THEN acc
    ELSE With(Strip(Head(lines), Whitespace),
              LAMBDA line :
                 TextLines(Tail(lines), ignored,
                           IF line # <<>> /\ ~IsDigit(Replaced(line, ignored))
                           THEN [text |-> Append(acc.text, line),
                                 timestamps |-> Append(acc.timestamps, <<>>)]
                           ELSE acc))

\* line.replace(':', '').replace('.', '').replace(' ', '').isdigit()
_parse_sub(content) ==
    TextLines(SplitLines(content), {":", ".", " "}, [text |-> <<>>, timestamps |-> <<>>])

\* re.match(r'^\d+$', line) on a stripped line
_parse_generic_subtitle(content) ==
    TextLines(SplitLines(content), {}, [text |-> <<>>, timestamps |-> <<>>])

----------------------------------------------------------------------------
(* _find_existing_thumbnails *)

\* Path.glob on the names of one directory: "*" stands for any characters
RECURSIVE GlobMatch(_, _)
GlobMatch(pattern, name) ==
    IF pattern = <<>> THEN name = <<>>
    ELSE IF Head(pattern) = "*"
    THEN \E k \in 0..Len(name) : GlobMatch(Tail(pattern), SubSeq(name, k + 1, Len(name)))
    ELSE name # <<>> /\ Head(name) = Head(pattern) /\ GlobMatch(Tail(pattern), Tail(name))

\* thumbnail_patterns, in the order of preference of the source
thumbnail_patterns(media_stem) ==
    <<media_stem \o <<"_", "t", "h", "u", "m", "b", "_", "*">>, media_stem \o <<"-", "t", "h", "u", "m", "b", "_", "*">>,
      media_stem \o <<"_", "t", "h", "u", "m", "b", "n", "a", "i", "l", ".", "*">>, media_stem \o <<"-", "t", "h", "u", "m", "b", "n", "a", "i", "l", ".", "*">>,
      media_stem \o <<"_", "t", "h", "u", "m", "b", ".", "*">>, media_stem \o <<"-", "t", "h", "u", "m", "b", ".", "*">>,
      media_stem \o <<"_", "c", "o", "v", "e", "r", ".", "*">>, media_stem \o <<"-", "c", "o", "v", "e", "r", ".", "*">>,
      media_stem \o <<"_", "p", "o", "s", "t", "e", "r", ".", "*">>, media_stem \o <<"-", "p", "o", "s", "t", "e", "r", ".", "*">>,
      <<"t", "h", "u", "m", "b", "_", "*", ".", "*">>, <<"t", "h", "u", "m", "b", "n", "a", "i", "l", "_", "*", ".", "*">>, <<"t", "h", "u", "m", "b", ".", "*">>, <<"t", "h", "u", "m", "b", "n", "a", "i", "l", ".", "*">>, <<"c", "o", "v", "e", "r", ".", "*">>,
      <<"p", "o", "s", "t", "e", "r", ".", "*">>, <<"f", "o", "l", "d", "e", "r", ".", "*">>, <<"a", "r", "t", "w", "o", "r", "k", ".", "*">>, <<"p", "r", "e", "v", "i", "e", "w", ".", "*">>>>

\* the patterns that name matches
PatternsOf(media_stem, name) ==
    {i \in 1..Len(thumbnail_patterns(media_stem)) :
        GlobMatch(thumbnail_patterns(media_stem)[i], name)}

\* the first of them: where the name enters the list of matches
FirstPattern(media_stem, name) ==
    CHOOSE i \in PatternsOf(media_stem, name) :
        \A j \in PatternsOf(media_stem, name) : i <= j

\* the image files next to the media file f that match a pattern
ThumbnailMatches(f) ==
    {t \in files : /\ t.dir = f.dir
                   /\ t # f
                   /\ Lower(Suffix(t.name)) \in IMAGE_EXTS
                   /\ PatternsOf(Stem(f.name), t.name) # {}}

DigitValue(c) == Ord(c) - Ord("0")

\* int(s) of a string of digits
RECURSIVE DecimalValue(_)
DecimalValue(s) ==
    IF s = <<>> THEN 0
    ELSE 10 * DecimalValue(SubSeq(s, 1, Len(s) - 1)) + DigitValue(s[Len(s)])

\* the last position of the run of digits that starts at i (i - 1 if none)
RECURSIVE DigitRunEnd(_, _)
DigitRunEnd(s, i) ==
    IF i <= Len(s) /\ s[i] \in Digits THEN DigitRunEnd(s, i + 1) ELSE i - 1

\* re.search(r'(\d+)x(\d*)', name): where the leftmost match starts, 0 if none
ResolutionAt(name) ==
    LET ps == {i \in 1..Len(name) :
                  /\ name[i] \in Digits
                  /\ DigitRunEnd(name, i) < Len(name)
                  /\ name[DigitRunEnd(name, i) + 1] = "x"}
    IN IF ps = {} THEN 0 ELSE CHOOSE p \in ps : \A q \in ps : p <= q

\* width * height of the match that starts at i; the height is the width when
\* no digits follow the x
ResolutionArea(name, i) ==
    With(DecimalValue(SubSeq(name, i, DigitRunEnd(name, i))), LAMBDA width :
      With(Slice(name, DigitRunEnd(name, i) + 2, DigitRunEnd(name, DigitRunEnd(name, i) + 2)),
           LAMBDA height : width * (IF height = <<>> THEN width ELSE DecimalValue(height))))

\* thumbnail_sort_key
thumbnail_sort_key(media_stem, thumb_name) ==
    With(Lower(Stem(thumb_name)), LAMBDA name :
      IF ResolutionAt(name) # 0 THEN <<1, ResolutionArea(name, ResolutionAt(name))>>
      ELSE IF Contains(name, media_stem) THEN <<0, 1000>>
      ELSE <<0, 0>>)

\* k1 > k2 for two sort keys
KeyGreater(k1, k2) == k1[1] > k2[1] \/ (k1[1] = k2[1] /\ k1[2] > k2[2])

\* whether a stands before b in every list the function can return: the sort
\* is stable and reversed, and the matches of one pattern come in the order of
\* the listing
ThumbBefore(media_stem, a, b) ==
    \/ KeyGreater(thumbnail_sort_key(media_stem, a), thumbnail_sort_key(media_stem, b))
    \/ /\ thumbnail_sort_key(media_stem, a) = thumbnail_sort_key(media_stem, b)
       /\ FirstPattern(media_stem, a) < FirstPattern(media_stem, b)

\* the lists _find_existing_thumbnails can return for the media file f
_find_existing_thumbnails(f) ==
    {ts \in [1..Cardinality(ThumbnailMatches(f)) -> ThumbnailMatches(f)] :
        /\ \A i, j \in DOMAIN ts : ts[i] = ts[j] => i = j
        /\ \A i, j \in DOMAIN ts :
              i < j => ~ThumbBefore(Stem(f.name), ts[j].name, ts[i].name)}

----------------------------------------------------------------------------
(* parse_subtitle_file and _detect_subtitle_language *)

\* the parser is chosen by the extension of the file
parse_subtitle_file(f) ==
    LET ext == Lower(Suffix(f.name))
    IN IF ext = <<".", "s", "r", "t">> THEN _parse_srt(f.content)
       ELSE IF ext = <<".", "v", "t", "t">> THEN _parse_vtt(f.content)
       ELSE IF ext \in {<<".", "a", "s", "s">>, <<".", "s", "s", "a">>} THEN _parse_ass(f.content)
       ELSE IF ext = <<".", "s", "u", "b">> THEN _parse_sub(f.content)
       ELSE _parse_generic_subtitle(f.content)

\* re.split(r'[._]', s)
RECURSIVE SplitOn(_, _)
SplitOn(s, seps) ==
    LET ps == {i \in 1..Len(s) : s[i] \in seps}
    IN IF ps = {} THEN <<s>>
       ELSE LET i == CHOOSE p \in ps : \A q \in ps : p <= q
            IN <<Slice(s, 1, i - 1)>> \o SplitOn(Slice(s, i + 1, Len(s)), seps)

LanguageOfPart(part) ==
    IF part \in {<<"e", "n", "g", "l", "i", "s", "h">>, <<"e", "n", "g">>, <<"e", "n">>} THEN "english"
    ELSE IF part \in {<<"s", "p", "a", "n", "i", "s", "h">>, <<"s", "p", "a">>, <<"e", "s">>} THEN "spanish"
    ELSE IF part \in {<<"f", "r", "e", "n", "c", "h">>, <<"f", "r", "e">>, <<"f", "r">>} THEN "french"
    ELSE IF part \in {<<"g", "e", "r", "m", "a", "n">>, <<"g", "e", "r">>, <<"d", "e">>} THEN "german"
    ELSE IF part \in {<<"i", "t", "a", "l", "i", "a", "n">>, <<"i", "t", "a">>, <<"i", "t">>} THEN "italian"
    ELSE IF part \in {<<"p", "o", "r", "t", "u", "g", "u", "e", "s", "e">>, <<"p", "o", "r">>, <<"p", "t">>} THEN "portuguese"
    ELSE IF part \in {<<"r", "u", "s", "s", "i", "a", "n">>, <<"r", "u", "s">>, <<"r", "u">>} THEN "russian"
    ELSE IF part \in {<<"j", "a", "p", "a", "n", "e", "s", "e">>, <<"j", "p", "n">>, <<"j", "a">>} THEN "japanese"
    ELSE IF part \in {<<"c", "h", "i", "n", "e", "s", "e">>, <<"c", "h", "i">>, <<"z", "h">>} THEN "chinese"
    ELSE "unknown"

RECURSIVE FirstLanguage(_)
FirstLanguage(parts) ==
    IF parts = <<>> THEN "unknown"
    ELSE IF LanguageOfPart(Head(parts)) # "unknown" THEN LanguageOfPart(Head(parts))
    ELSE FirstLanguage(Tail(parts))

_detect_subtitle_language(filename) == FirstLanguage(SplitOn(Lower(filename), {".", "_"}))

----------------------------------------------------------------------------
(* _create_media_item *)

\* str(path.relative_to(root))
PathStr(dir, name) == JoinWith(Append(dir, name), <<"/">>)

\* Path(s).parent and Path(s).name of a relative path string
PathParts(s) == SplitOn(s, {"/"})
PathDir(s) == SubSeq(PathParts(s), 1, Len(PathParts(s)) - 1)
PathName(s) == PathParts(s)[Len(PathParts(s))]

\* f"{media_file.stem}_web.mp4", in <root>/.videxer/transcodes
TranscodeName(f) == Stem(f.name) \o <<"_", "w", "e", "b", ".", "m", "p", "4">>

\* str(transcode_path.relative_to(root))
TranscodePath(f) == PathStr(<<<<".", "v", "i", "d", "e", "x", "e", "r">>, <<"t", "r", "a", "n", "s", "c", "o", "d", "e", "s">>>>, TranscodeName(f))

IsVideo(f) == Lower(Suffix(f.name)) \in VIDEO_EXTS

\* lines 421-429: the entry of one subtitle file, if its parsed text is not empty
SubtitleEntry(s, parsed_data) ==
    IF parsed_data.text # <<>>
    THEN <<[file |-> PathStr(s.dir, s.name),
            language |-> _detect_subtitle_language(s.name),
            text |-> parsed_data.text,
            timestamps |-> parsed_data.timestamps,
            text_combined |-> Lower(JoinWith(parsed_data.text, <<" ">>))]>>
    ELSE <<>>

\* the entries of item['subtitles'] for the subtitle files subs (a sequence)
RECURSIVE SubtitleEntries(_)
SubtitleEntries(subs) ==
    IF subs = <<>> THEN <<>>
    ELSE SubtitleEntry(Head(subs), parse_subtitle_file(Head(subs)))
           \o SubtitleEntries(Tail(subs))

\* files.get('subtitles', []): the subtitle files of f's group in the order in
\* which iterdir() has yielded them, which is the file system's: any order
SubtitleLists(f) ==
    {subtitle_files \in [1..Cardinality(SubtitlesOf(f)) -> SubtitlesOf(f)] :
        \A i, j \in DOMAIN subtitle_files :
            subtitle_files[i] = subtitle_files[j] => i = j}

\* The transcode part: with the transcode directory td, generate_transcodes g, the
\* encoder leaving enc ("none": no file, "valid", "invalid" or "partial": a file
\* that does not probe) and unlink succeeding or not (ul).
\* Whether the existing artifact is deleted as invalid:
TranscodeUnlinks(f, td, g) ==
    g /\ IsVideo(f) /\ TranscodeName(f) \in DOMAIN td /\ ~td[TranscodeName(f)].valid

TranscodeAfterUnlink(f, td, g, ul) ==
    IF TranscodeUnlinks(f, td, g) /\ ul THEN Pop(td, TranscodeName(f)) ELSE td

\* generate_video_transcode called for every video, whatever is there
TranscodeRequested_always(f, td, g, ul) == g /\ IsVideo(f)

\* whether generate_video_transcode is called
TranscodeRequested(f, td, g, ul) ==
    g /\ IsVideo(f) /\ TranscodeName(f) \notin DOMAIN TranscodeAfterUnlink(f, td, g, ul)

\* the transcode directory after _create_media_item(f)
TranscodesAfter(f, td, g, enc, ul) ==
    IF TranscodeRequested(f, td, g, ul) /\ enc # "none"
    THEN Put(TranscodeAfterUnlink(f, td, g, ul), TranscodeName(f),
             [valid |-> enc = "valid", src |-> PathStr(f.dir, f.name)])
    ELSE TranscodeAfterUnlink(f, td, g, ul)

\* the transcoded field given whenever the artifact exists, asked for or not
WithOptional_ungated(item, f, td, g, subtitles) ==
    With(IF IsVideo(f) /\ TranscodeName(f) \in DOMAIN td
         THEN Put(item, "transcoded", TranscodePath(f))
         ELSE item, LAMBDA item1 :
      IF subtitles # <<>> THEN Put(item1, "subtitles", subtitles) ELSE item1)

\* lines 412-413 and 430-431: item with the optional fields transcoded, if the
\* artifact exists in the transcode directory td, and subtitles
WithOptional(item, f, td, g, subtitles) ==
    With(IF g /\ IsVideo(f) /\ TranscodeName(f) \in DOMAIN td
         THEN Put(item, "transcoded", TranscodePath(f))
         ELSE item, LAMBDA item1 :
      IF subtitles # <<>> THEN Put(item1, "subtitles", subtitles) ELSE item1)

\* The thumbnail part: with the files ad of <root>/.videxer/thumbnails,
\* generate_thumbnails t and generate_motion_thumbnails m.
\* f"{media_file.stem}_thumb.jpg" and f"{media_file.stem}_motion.mp4"
ThumbName(f) == Stem(f.name) \o <<"_", "t", "h", "u", "m", "b", ".", "j", "p", "g">>
MotionName(f) == Stem(f.name) \o <<"_", "m", "o", "t", "i", "o", "n", ".", "m", "p", "4">>

\* str(path.relative_to(root)) of a file of the thumbnails directory
AssetPath(name) == PathStr(<<<<".", "v", "i", "d", "e", "x", "e", "r">>, <<"t", "h", "u", "m", "b", "n", "a", "i", "l", "s">>>>, name)

\* what generate_video_thumbnail does: "made" writes the image and returns True,
\* "none" returns False, "unsaved" returns True though imwrite wrote nothing,
\* "partial" raises with a file begun and returns False
ThumbOutcomes == {"none", "made", "unsaved", "partial"}
ThumbOk(th) == th \in {"made", "unsaved"}
ThumbFile(th) == th \in {"made", "partial"}

\* what generate_motion_thumbnail does: "made" writes the clip, "none" fails;
\* for a video shorter than one second it calls generate_video_thumbnail with
\* the clip's path, which writes nothing ("short") or a file ("still")
MotionOutcomes == {"none", "made", "short", "still"}
MotionFile(mo) == mo \in {"made", "still"}
MotionCallsThumbnail(mo) == mo \in {"short", "still"}

\* lines 361-368: generate_video_thumbnail is called for <stem>_thumb.jpg; the
\* thumbnail_files of the grouping are always empty, as every image suffix is a
\* media suffix (_group_related_files, lines 160 and 185)
ThumbRequested(f, existing_thumbnails, ad, t) ==
    t /\ IsVideo(f) /\ existing_thumbnails = <<>> /\ ThumbName(f) \notin ad

\* lines 384-385: generate_motion_thumbnail is called
MotionRequested(f, ad, m) == m /\ IsVideo(f) /\ MotionName(f) \notin ad

\* thumb_paths at line 376
ThumbPaths(f, existing_thumbnails, ad, t, th) ==
    IF t /\ IsVideo(f) /\ existing_thumbnails = <<>>
    THEN IF ThumbName(f) \in ad \/ ThumbOk(th) THEN <<AssetPath(ThumbName(f))>> ELSE <<>>
    ELSE [i \in DOMAIN existing_thumbnails |->
             PathStr(existing_thumbnails[i].dir, existing_thumbnails[i].name)]

\* the thumbnails directory after _create_media_item(f)
AssetsAfter(f, existing_thumbnails, ad, t, m, th, mo) ==
    ad \cup (IF ThumbRequested(f, existing_thumbnails, ad, t) /\ ThumbFile(th)
             THEN {ThumbName(f)} ELSE {})
       \cup (IF MotionRequested(f, ad, m) /\ MotionFile(mo)
             THEN {MotionName(f)} ELSE {})

\* the calls of generate_video_thumbnail that _create_media_item(f) makes
ThumbnailCalls(f, existing_thumbnails, ad, t, m, mo) ==
    (IF ThumbRequested(f, existing_thumbnails, ad, t)
     THEN {[src |-> PathStr(f.dir, f.name), output |-> ThumbName(f)]} ELSE {})
      \cup (IF MotionRequested(f, ad, m) /\ MotionCallsThumbnail(mo)
            THEN {[src |-> PathStr(f.dir, f.name), output |-> MotionName(f)]} ELSE {})

\* lines 374-387: item with thumbs, thumb_best and motion_thumb, where ad is the
\* thumbnails directory after the two generators
WithThumbs(item, f, thumb_paths, ad, m) ==
    With(IF thumb_paths # <<>>
         THEN Put(Put(item, "thumbs", thumb_paths), "thumb_best", thumb_paths[1])
         ELSE item, LAMBDA item1 :
      IF m /\ IsVideo(f) /\ MotionName(f) \in ad
      THEN Put(item1, "motion_thumb", AssetPath(MotionName(f)))
      ELSE item1)

\* lines 329-341: the fields every item has
BaseItem(f, relative_path) ==
    [type |-> "media",
     name |-> Stem(f.name),
     path |-> relative_path,
     primary_media |-> relative_path,
     size |-> f.size,
     modified_time |-> f.mtime,
     media_type |-> _determine_media_type(Suffix(f.name))]

\* the item _create_media_item returns: thumb_paths and ad are the thumbnail
\* paths and the thumbnails directory after the generators
_create_media_item(f, subtitle_files, thumb_paths, ad, m, td, g, enc, ul) ==
    WithOptional(WithThumbs(BaseItem(f, PathStr(f.dir, f.name)), f, thumb_paths, ad, m), f,
                 TranscodesAfter(f, td, g, enc, ul), g,
                 SubtitleEntries(subtitle_files))

----------------------------------------------------------------------------
(* _build_directory_structure *)

\* a loader that takes what an unparsable metadata.json holds
MetadataLoads_lenient(d) == sidecar[d].state # "none"

\* whether d/metadata.json exists and json.load parses it
MetadataLoads(d) == sidecar[d].state = "ok"

\* the parsed metadata.json of d (the empty dict stands for None where the file
\* is absent or does not parse: the collector tests the result for truth only)
LoadMetadata(d) == IF MetadataLoads(d) THEN sidecar[d].md ELSE NoSidecar.md

\* `if metadata:`: loaded, and not the empty dict
MetadataTruthy(md) == DOMAIN md # {}

\* item with item[key] = md[key] if md.get(key) is truthy
OverrideIfTruthy(item, md, key) ==
    IF Truthy(Get(md, key)) THEN Put(item, key, md[key]) ELSE item

\* lines 245-252: the directory's own metadata.json, applied to its only group
ApplyCurrentMetadata(media_item, d) ==
    LET current_metadata == LoadMetadata(d)
    IN IF MetadataTruthy(current_metadata) /\ Cardinality(GroupKeys(d)) = 1
       THEN OverrideIfTruthy(
                OverrideIfTruthy(
                    OverrideIfTruthy(media_item, current_metadata, "name"),
                    current_metadata, "created_time"),
                current_metadata, "description")
       ELSE media_item

\* the media items of current_dir itself, in the order of the sorted groups
OwnItems(d) ==
    LET fs == SortedMedia(d, primary)
    IN [i \in 1..Len(fs) |-> ApplyCurrentMetadata(raw[PathStr(fs[i].dir, fs[i].name)], d)]

IsMedia(item) == item.type = "media"
IsDirectory(item) == item.type = "directory"

\* should_flatten without the flattening rule
should_flatten_never(subdir_contents) == FALSE

\* Flatten if: exactly 1 media item and no subdirectories
should_flatten(subdir_contents) ==
    /\ Len(SelectSeq(subdir_contents, IsMedia)) = 1
    /\ Len(SelectSeq(subdir_contents, IsDirectory)) = 0

\* the promoted item left with the name of its file
Promoted_unrenamed(media_item, subdir) == media_item

\* the promoted item given the path of its directory
Promoted_moved(media_item, subdir) ==
    Put(Put(media_item, "name", subdir[Len(subdir)]), "path", JoinWith(subdir, <<"/">>))

\* lines 280-290: the promoted item
Promoted(media_item, subdir) ==
    LET metadata == LoadMetadata(subdir)
        dirname == subdir[Len(subdir)]
    IN IF MetadataTruthy(metadata)
       THEN OverrideIfTruthy(
                OverrideIfTruthy(
                    Put(media_item, "name", GetOr(metadata, "name", dirname)),
                    metadata, "created_time"),
                metadata, "description")
       ELSE Put(media_item, "name", dirname)

\* lines 294-307: the directory item
DirItem(subdir, subdir_contents) ==
    LET metadata == LoadMetadata(subdir)
        dir_item == [type |-> "directory",
                     name |-> subdir[Len(subdir)],
                     path |-> JoinWith(subdir, <<"/">>),
                     children |-> subdir_contents]
    IN IF MetadataTruthy(metadata)
       THEN OverrideIfTruthy(
                OverrideIfTruthy(
                    OverrideIfTruthy(dir_item, metadata, "name"),
                    metadata, "created_time"),
                metadata, "description")
       ELSE dir_item

\* what one subdirectory adds to the items of its parent
SubdirEntry(subdir, subdir_contents) ==
    IF should_flatten(subdir_contents)
    THEN <<Promoted(SelectSeq(subdir_contents, IsMedia)[1], subdir)>>
    ELSE IF subdir_contents # <<>> THEN <<DirItem(subdir, subdir_contents)>>
    ELSE <<>>

RECURSIVE _build_directory_structure(_)
RECURSIVE BuildSubdirs(_)
_build_directory_structure(current_dir) ==
    OwnItems(current_dir) \o BuildSubdirs(SortedSubdirs(current_dir))
BuildSubdirs(subdirs) ==
    IF subdirs = <<>> THEN <<>>
    ELSE SubdirEntry(Head(subdirs), _build_directory_structure(Head(subdirs)))
           \o BuildSubdirs(Tail(subdirs))

----------------------------------------------------------------------------
(* indexer.py: _flatten_items, _extract_metadata_from_filename,            *)
(* _process_media_item                                                     *)

RECURSIVE _flatten_items(_)
_flatten_items(items) ==
    IF items = <<>> THEN <<>>
    ELSE LET item == Head(items)
         IN (IF item.type = "media" THEN <<item>>
             ELSE IF item.type = "directory" /\ "children" \in DOMAIN item
                  THEN _flatten_items(item.children)
                  ELSE <<>>) \o _flatten_items(Tail(items))

Number(s) ==
    IF Len(s) = 2 THEN 10 * DigitValue(s[1]) + DigitValue(s[2])
    ELSE 1000 * DigitValue(s[1]) + 100 * DigitValue(s[2])
           + 10 * DigitValue(s[3]) + DigitValue(s[4])

IsLeap(y) == (y % 4 = 0 /\ y % 100 # 0) \/ y % 400 = 0

DaysIn(y, m) ==
    IF m = 2 THEN (IF IsLeap(y) THEN 29 ELSE 28)
    ELSE IF m \in {4, 6, 9, 11} THEN 30 ELSE 31

\* whether datetime.strptime accepts the year, month and day
ValidDate(y, m, d) == y >= 1 /\ m \in 1..12 /\ d >= 1 /\ d <= DaysIn(y, m)

\* r'(\d{4}-\d{2}-\d{2})' and r'(\d{4}\d{2}\d{2})'
DashDatePattern == <<"#", "#", "#", "#", "-", "#", "#", "-", "#", "#">>
PlainDatePattern == <<"#", "#", "#", "#", "#", "#", "#", "#">>

\* re.sub(pattern, '', s) for a pattern of fixed length
RECURSIVE RemoveFixed(_, _)
RemoveFixed(pattern, s) ==
    LET at == SearchFixed(pattern, s)
    IN IF at = 0 THEN s
       ELSE Slice(s, 1, at - 1)
              \o RemoveFixed(pattern, Slice(s, at + Len(pattern), Len(s)))

\* datetime.strptime(...).isoformat() of the digits of a match: whether the
\* date exists, and its ISO text
ParseDate(y, m, d) ==
    [ok |-> ValidDate(Number(y), Number(m), Number(d)),
     iso |-> y \o <<"-">> \o m \o <<"-">> \o d \o <<"T", "0", "0", ":", "0", "0", ":", "0", "0">>]

\* lines 233-237: the match parsed with the format its dash selects
ParseMatch(date_str) ==
    IF Contains(date_str, <<"-">>)
    THEN ParseDate(SubSeq(date_str, 1, 4), SubSeq(date_str, 6, 7), SubSeq(date_str, 9, 10))
    ELSE ParseDate(SubSeq(date_str, 1, 4), SubSeq(date_str, 5, 6), SubSeq(date_str, 7, 8))

\* one pattern of the loop: [matched and parsed, created_time, name]
TryDatePattern(pattern, name) ==
    With(SearchFixed(pattern, name), LAMBDA at :
      IF at = 0 THEN [ok |-> FALSE, created_time |-> None, name |-> name]
      ELSE With(ParseMatch(SubSeq(name, at, at + Len(pattern) - 1)), LAMBDA date :
             IF date.ok
             THEN [ok |-> TRUE, created_time |-> date.iso,
                   name |-> Strip(RemoveFixed(pattern, name), {" ", "-", "_"})]
             ELSE [ok |-> FALSE, created_time |-> None, name |-> name]))

\* the loop over date_patterns: the first pattern that matches and parses wins
FirstDate(name_without_ext) ==
    With(TryDatePattern(DashDatePattern, name_without_ext), LAMBDA first :
      IF first.ok THEN first ELSE TryDatePattern(PlainDatePattern, name_without_ext))

_extract_metadata_from_filename(filename) ==
    With(FirstDate(Stem(PathName(filename))), LAMBDA got :
      [name |-> IF got.name # <<>> THEN got.name ELSE filename,
       created_time |-> got.created_time])

\* item with the optional field key copied from src if src has it
CopyIfPresent(item, src, key) ==
    IF key \in DOMAIN src THEN Put(item, key, src[key]) ELSE item

\* the metadata.json of the item's directory left unread
OwnSidecar_unread(dir, name, created_time) ==
    [name |-> name, created_time |-> created_time, description |-> None]

\* lines 170-181: name, created_time and description after the metadata.json
\* of the item's own directory, if it loads
OwnSidecar(dir, name, created_time) ==
    IF MetadataLoads(dir)
    THEN [name |-> GetOr(LoadMetadata(dir), "name", name),
          created_time |-> GetOr(LoadMetadata(dir), "created_time", created_time),
          description |-> Get(LoadMetadata(dir), "description")]
    ELSE [name |-> name, created_time |-> created_time, description |-> None]

\* lines 157-167: the created_time of the item, or else the date of its file name
CreatedOrDated(item) ==
    With(Get(item, "created_time"), LAMBDA created_time :
      IF ~Truthy(created_time)
      THEN With(_extract_metadata_from_filename(item.path), LAMBDA file_metadata :
             IF Truthy(file_metadata.created_time)
             THEN file_metadata.created_time
             ELSE created_time)
      ELSE created_time)

_process_media_item(item) ==
    With(OwnSidecar(PathDir(item.path), GetOr(item, "name", <<>>), CreatedOrDated(item)),
         LAMBDA md :
      CopyIfPresent(CopyIfPresent(CopyIfPresent(CopyIfPresent(CopyIfPresent(
          [name |-> IF ~Truthy(md.name) THEN Stem(PathName(item.path)) ELSE md.name,
           created_time |-> md.created_time,
           size |-> item.size,
           media_type |-> item.media_type,
           description |-> md.description,
           path |-> item.path,
           primary_media |-> item.primary_media],
          item, "thumbs"), item, "thumb_best"), item, "motion_thumb"),
          item, "transcoded"), item, "subtitles"))

----------------------------------------------------------------------------
(* indexer.py: the search index *)

\* \w, among the model's characters
IsWordChar(c) == c \in LowerLetters \cup UpperLetters \cup Digits \cup {"_"}

\* re.findall(r'\b\w+\b', text): the maximal runs of word characters
RECURSIVE FindWords(_)
FindWords(s) ==
    LET starts == {i \in 1..Len(s) : IsWordChar(s[i])}
    IN IF starts = {} THEN <<>>
       ELSE LET i == CHOOSE p \in starts : \A q \in starts : p <= q
                ends == {j \in i..Len(s) : \A k \in i..j : IsWordChar(s[k])}
                j == CHOOSE p \in ends : \A q \in ends : q <= p
            IN <<SubSeq(s, i, j)>> \o FindWords(Slice(s, j + 1, Len(s)))

\* the words added without looking for item_idx in the posting list
RECURSIVE AddWords_repeating(_, _, _)
AddWords_repeating(index_dict, words, item_idx) ==
    IF words = <<>> THEN index_dict
    ELSE LET word == Head(words)
             postings == IF word \in DOMAIN index_dict THEN index_dict[word] ELSE <<>>
         IN AddWords_repeating(IF Len(word) >= 3
                               THEN Put(index_dict, word, Append(postings, item_idx))
                               ELSE index_dict,
                               Tail(words), item_idx)

\* index_dict after the words of one text have been added for item_idx
RECURSIVE AddWords(_, _, _)
AddWords(index_dict, words, item_idx) ==
    IF words = <<>> THEN index_dict
    ELSE LET word == Head(words)
             postings == IF word \in DOMAIN index_dict THEN index_dict[word] ELSE <<>>
             added == IF \E k \in 1..Len(postings) : postings[k] = item_idx
                      THEN postings
                      ELSE Append(postings, item_idx)
         IN AddWords(IF Len(word) >= 3 THEN Put(index_dict, word, added) ELSE index_dict,
                     Tail(words), item_idx)

_add_to_search_index(index_dict, txt, item_idx) ==
    AddWords(index_dict, FindWords(txt), item_idx)

EmptyIndex == [w \in {} |-> <<>>]

\* the loop of _build_base_search_index from item idx on (idx counts from 0)
RECURSIVE BaseIndexFrom(_, _, _)
BaseIndexFrom(items, idx, acc) ==
    IF idx >= Len(items) THEN acc
    ELSE LET item == items[idx + 1]
             item_id == <<"u", "n", "k", "n", "o", "w", "n", "_">> \o item.path
             name == Lower(item.name)
             description == IF Truthy(item.description) THEN Lower(item.description)
                            ELSE <<>>
         IN BaseIndexFrom(items, idx + 1,
                [name_terms |-> IF name # <<>>
                                THEN _add_to_search_index(acc.name_terms, name, idx)
                                ELSE acc.name_terms,
                 description_terms |-> IF description # <<>>
                                       THEN _add_to_search_index(acc.description_terms,
                                                                 description, idx)
                                       ELSE acc.description_terms,
                 item_map |-> Append(acc.item_map, item_id)])

_build_base_search_index(items) ==
    BaseIndexFrom(items, 0,
                  [name_terms |-> EmptyIndex, description_terms |-> EmptyIndex,
                   item_map |-> <<>>])

\* the subtitle tracks of one item, added for idx
RECURSIVE AddTracks(_, _, _)
AddTracks(index_dict, tracks, idx) ==
    IF tracks = <<>> THEN index_dict
    ELSE LET combined_text == Lower(Head(tracks).text_combined)
         IN AddTracks(IF combined_text # <<>>
                      THEN _add_to_search_index(index_dict, combined_text, idx)
                      ELSE index_dict,
                      Tail(tracks), idx)

RECURSIVE SubtitleIndexFrom(_, _, _)
SubtitleIndexFrom(items, idx, acc) ==
    IF idx >= Len(items) THEN acc
    ELSE SubtitleIndexFrom(items, idx + 1,
             IF "subtitles" \in DOMAIN items[idx + 1]
             THEN AddTracks(acc, items[idx + 1].subtitles, idx)
             ELSE acc)

_build_subtitle_index(items) ==
    [subtitle_terms |-> SubtitleIndexFrom(items, 0, EmptyIndex)]

----------------------------------------------------------------------------
(* Bounds of the model *)

\* how many changes the environment makes to the tree
MaxEdits == 4

\* how many runs of build_index are started
MaxRuns == 2

----------------------------------------------------------------------------
(* The state before the first run *)

EmptyDict == [k \in {} |-> <<>>]

NoResult == [items |-> <<>>, structure |-> "none", total_items |-> 0,
             search_index |-> _build_base_search_index(<<>>),
             _subtitle_index |-> _build_subtitle_index(<<>>)]

NoPrev == [gen |-> FALSE, sources |-> {}, tdisk |-> EmptyDict, items |-> <<>>]

\* the three output files of write_index_files
OutputFiles == {"index.json", "index.subtitles.json", "index.html"}

\* none of them written yet
NoOutputs == [n \in OutputFiles |-> [state |-> "absent", data |-> <<>>]]

InitRun ==
    /\ tdisk = EmptyDict
    /\ edits = 0
    /\ runs = 0
    /\ pc = "idle"
    /\ gen = FALSE
    /\ structure = "none"
    /\ primary = {}
    /\ queue = <<>>
    /\ raw = EmptyDict
    /\ encodes = {}
    /\ unlinkFailed = FALSE
    /\ encFailed = {}
    /\ prev = NoPrev
    /\ processed = <<>>
    /\ result = NoResult
    /\ adisk = {}
    /\ genThumbs = FALSE
    /\ genMotion = FALSE
    /\ thumbReqs = {}
    /\ procs = EmptyDict
    /\ wpc = "out"

InitPure ==
    /\ text = <<>>
    /\ out = <<>>

\* an empty root directory, nothing generated yet
Init ==
    /\ dirs = {Root}
    /\ files = {}
    /\ sidecar = [d \in {Root} |-> NoSidecar]
    /\ unlistable = EmptyDict
    /\ outs = NoOutputs
    /\ InitRun
    /\ InitPure

----------------------------------------------------------------------------
(* The environment: the tree changes between two runs *)

MkDir(d) ==
    /\ pc = "idle"
    /\ edits < MaxEdits
    /\ d \notin dirs
    /\ Parent(d) \in dirs
    /\ dirs' = dirs \cup {d}
    /\ sidecar' = [x \in dirs \cup {d} |-> IF x = d THEN NoSidecar ELSE sidecar[x]]
    /\ edits' = edits + 1
    /\ UNCHANGED <<files, unlistable, tdisk, runVars, pureVars, raceVars, thumbVars, outVars>>

AddFile(f) ==
    /\ pc = "idle"
    /\ edits < MaxEdits
    /\ f.dir \in dirs
    /\ \A g \in files : ~(g.dir = f.dir /\ g.name = f.name)
    /\ files' = files \cup {f}
    /\ edits' = edits + 1
    /\ UNCHANGED <<dirs, sidecar, unlistable, tdisk, runVars, pureVars, raceVars, thumbVars, outVars>>

RemoveFile(f) ==
    /\ pc = "idle"
    /\ edits < MaxEdits
    /\ f \in files
    /\ files' = files \ {f}
    /\ edits' = edits + 1
    /\ UNCHANGED <<dirs, sidecar, unlistable, tdisk, runVars, pureVars, raceVars, thumbVars, outVars>>

WriteSidecar(d, sc) ==
    /\ pc = "idle"
    /\ edits < MaxEdits
    /\ d \in dirs
    /\ sidecar[d] # sc
    /\ sidecar' = [sidecar EXCEPT ![d] = sc]
    /\ edits' = edits + 1
    /\ UNCHANGED <<dirs, files, unlistable, tdisk, runVars, pureVars, raceVars, thumbVars, outVars>>

\* the directory d can no longer be listed: iterdir() on it raises
\* PermissionError
Deny(d) ==
    /\ pc = "idle"
    /\ edits < MaxEdits
    /\ d \in dirs
    /\ d \notin DOMAIN unlistable
    /\ unlistable' = Put(unlistable, d, "PermissionError")
    /\ edits' = edits + 1
    /\ UNCHANGED <<dirs, files, sidecar, tdisk, runVars, pureVars, raceVars, thumbVars, outVars>>

----------------------------------------------------------------------------
(* One run of build_index(root, generate_transcodes = g)                   *)

\* the directories a run lists with iterdir(): detect_media_structure the root
\* and every directory in it, _build_directory_structure the root and every
\* directory below it that has no hidden name on its path
ListedDirs ==
    {Root} \cup {d \in dirs : Len(d) = 1 \/ \A i \in 1..Len(d) : ~IsHidden(d[i])}

\* iterdir() that lists whatever the path is
ListingRaises_never == FALSE

\* a listing of the run raises
ListingRaises == ListedDirs \cap DOMAIN unlistable # {}

\* what generate_video_transcode returns: True when ffmpeg.run returned and the
\* output exists ("valid", or "invalid", a file that does not probe), False when
\* it left no file ("none") or raised with a file begun ("partial")
EncoderOk(enc) == enc \in {"valid", "invalid"}

\* build_index up to the first _create_media_item: the structure is detected,
\* and with generate_transcodes the pre-flight pass is next
StartRun(g, t, m) ==
    /\ pc = "idle"
    /\ runs < MaxRuns
    /\ ~ListingRaises
    /\ runs' = runs + 1
    /\ gen' = g
    /\ genThumbs' = t
    /\ genMotion' = m
    /\ thumbReqs' = {}
    /\ structure' = detect_media_structure(Root)
    /\ \E P \in Groupings :
          /\ primary' = P
          /\ queue' = CreationOrder(Root, P)
    /\ raw' = EmptyDict
    /\ encodes' = {}
    /\ unlinkFailed' = FALSE
    /\ encFailed' = {}
    /\ prev' = [gen |-> gen, sources |-> DOMAIN raw, tdisk |-> tdisk,
                items |-> result.items]
    /\ pc' = IF g THEN "preflight" ELSE "items"
    /\ UNCHANGED <<treeVars, tdisk, adisk, edits, processed, result, pureVars, raceVars, outVars>>

\* a pre-flight pass that finds every file valid
InvalidTranscodes_trusting(td) == {}

\* the files of the transcode directory that validate_and_purge_bad_transcodes
\* finds invalid
InvalidTranscodes(td) ==
    {n \in DOMAIN td : Lower(Suffix(n)) = <<".", "m", "p", "4">> /\ ~td[n].valid}

\* td without the files of gone
Without(td, gone) == [n \in DOMAIN td \ gone |-> td[n]]

\* validate_and_purge_bad_transcodes: every invalid .mp4 is unlinked; the unlinks
\* of stuck raise
validate_and_purge_bad_transcodes(stuck) ==
    /\ pc = "preflight"
    /\ stuck \subseteq InvalidTranscodes(tdisk)
    /\ tdisk' = Without(tdisk, InvalidTranscodes(tdisk) \ stuck)
    /\ unlinkFailed' = (unlinkFailed \/ stuck # {})
    /\ pc' = "items"
    /\ UNCHANGED <<treeVars, edits, runs, gen, structure, primary, queue, raw,
                   encodes, encFailed, prev, processed, result, pureVars, raceVars, thumbVars, outVars>>

\* one call of _create_media_item from _build_directory_structure; ul tells
\* whether the unlink of an invalid transcode succeeds, enc what the encoder
\* does, th and mo what the two thumbnail generators do, and each is drawn only
\* when the call gets that far; the thumbnails found and the subtitle files come
\* in an order of the listing
CreateMediaItem(enc, ul, th, mo) ==
    /\ pc = "items"
    /\ queue # <<>>
    /\ ul \/ TranscodeUnlinks(Head(queue), tdisk, gen)
    /\ enc = "none" \/ TranscodeRequested(Head(queue), tdisk, gen, ul)
    /\ mo = "none" \/ MotionRequested(Head(queue), adisk, genMotion)
    /\ LET f == Head(queue)
       IN /\ \E existing_thumbnails \in _find_existing_thumbnails(f) :
                /\ th = "none" \/ ThumbRequested(f, existing_thumbnails, adisk, genThumbs)
                /\ \E subtitle_files \in SubtitleLists(f) :
                      raw' = Put(raw, PathStr(f.dir, f.name),
                                 _create_media_item(
                                     f, subtitle_files,
                                     ThumbPaths(f, existing_thumbnails, adisk, genThumbs, th),
                                     AssetsAfter(f, existing_thumbnails, adisk, genThumbs,
                                                 genMotion, th, mo),
                                     genMotion, tdisk, gen, enc, ul))
                /\ adisk' = AssetsAfter(f, existing_thumbnails, adisk, genThumbs,
                                        genMotion, th, mo)
                /\ thumbReqs' = thumbReqs \cup ThumbnailCalls(f, existing_thumbnails, adisk,
                                                             genThumbs, genMotion, mo)
          /\ tdisk' = TranscodesAfter(f, tdisk, gen, enc, ul)
          /\ encodes' = IF TranscodeRequested(f, tdisk, gen, ul)
                        THEN encodes \cup {PathStr(f.dir, f.name)}
                        ELSE encodes
          /\ encFailed' = IF TranscodeRequested(f, tdisk, gen, ul) /\ ~EncoderOk(enc)
                          THEN encFailed \cup {PathStr(f.dir, f.name)}
                          ELSE encFailed
          /\ unlinkFailed' = (unlinkFailed \/ (TranscodeUnlinks(f, tdisk, gen) /\ ~ul))
    /\ queue' = Tail(queue)
    /\ UNCHANGED <<treeVars, edits, runs, pc, gen, genThumbs, genMotion, structure,
                   primary, prev, processed, result, pureVars, raceVars, outVars>>

\* the items of _process_media_item for a list of raw items
ProcessAll(flat_items) == [i \in 1..Len(flat_items) |-> _process_media_item(flat_items[i])]

\* current_transcodes
CurrentTranscodes(items) ==
    {items[i].transcoded : i \in {k \in 1..Len(items) : "transcoded" \in DOMAIN items[k]}}

\* the files cleanup_old_transcodes unlinks
Unreferenced(td, current_transcodes) ==
    {n \in DOMAIN td : PathStr(<<<<".", "v", "i", "d", "e", "x", "e", "r">>, <<"t", "r", "a", "n", "s", "c", "o", "d", "e", "s">>>>, n) \notin current_transcodes}

\* lines 130-135: the subtitle payload of a processed item is replaced by a flag
StripSubtitles(it) ==
    IF "subtitles" \in DOMAIN it
    THEN IF it.subtitles # <<>> THEN Put(Pop(it, "subtitles"), "has_subtitles", TRUE)
         ELSE Pop(it, "subtitles")
    ELSE it

\* lines 126-144: the two indexes are built, the subtitle payload is taken from
\* the processed items, and the result is returned
Publish(hierarchical_items, processed_items) ==
    /\ processed' = [i \in 1..Len(processed_items) |-> StripSubtitles(processed_items[i])]
    /\ result' = [items |-> hierarchical_items,
                  structure |-> structure,
                  total_items |-> Len(processed_items),
                  search_index |-> _build_base_search_index(processed_items),
                  _subtitle_index |-> _build_subtitle_index(processed_items)]

\* lines 120-124: cleanup_old_transcodes unlinks the files of doomed; the unlinks
\* of stuck raise, which it ignores
Cleanup(doomed, stuck) ==
    /\ stuck \subseteq doomed
    /\ tdisk' = Without(tdisk, doomed \ stuck)
    /\ unlinkFailed' = (unlinkFailed \/ stuck # {})

\* the rest of build_index, once every item is created: the tree of items, the
\* flat list, the processed items, the cleanup, the two indexes, the result
FinishRun(stuck) ==
    /\ pc = "items"
    /\ queue = <<>>
    /\ With(_build_directory_structure(Root), LAMBDA hierarchical_items :
         With(ProcessAll(_flatten_items(hierarchical_items)), LAMBDA processed_items :
           /\ Cleanup(IF gen THEN Unreferenced(tdisk, CurrentTranscodes(processed_items))
                      ELSE {}, stuck)
           /\ Publish(hierarchical_items, processed_items)))
    /\ pc' = "idle"
    /\ wpc' = IF wpc = "build" THEN "json" ELSE wpc
    /\ UNCHANGED <<treeVars, edits, runs, gen, structure, primary, queue, raw,
                   encodes, encFailed, prev, outs, pureVars, raceVars, thumbVars>>

----------------------------------------------------------------------------
(* The trees of the model *)

DirA == <<<<"a">>>>
DirAC == <<<<"a">>, <<"c">>>>
DirHidden == <<<<".", "h">>>>

\* a media file: its bytes are not read by the engine
MediaFile(d, name) ==
    [dir |-> d, name |-> name, content |-> <<>>, size |-> 1024, mtime |-> <<"1", "7", "0", "0", "0", "0", "0", "0", "0", "0", ".", "0">>]

\* a subtitle file and its text
TextFile(d, name, content) ==
    [dir |-> d, name |-> name, content |-> content, size |-> Len(content),
     mtime |-> <<"1", "7", "0", "0", "0", "0", "0", "0", "0", "0", ".", "0">>]

\* "1\n00:00:01,000 --> 00:00:04,000\nHello world\n"
OneCue == <<"1", "\n", "0", "0", ":", "0", "0", ":", "0", "1", ",", "0", "0", "0", " ", "-", "-", ">", " ", "0", "0", ":", "0", "0", ":", "0", "4", ",", "0", "0", "0", "\n", "H", "e", "l", "l", "o", " ", "w", "o", "r", "l", "d", "\n">>

\* the trees of Spec: two directories with a video of the same name in each, and
\* a subtitle for the one of the root
SpecDirs == {DirA}
SpecFiles ==
    {MediaFile(d, <<"x", ".", "m", "p", "4">>) : d \in {Root, DirA}}
      \cup {TextFile(Root, <<"x", ".", "s", "r", "t">>, OneCue)}

EncoderOutcomes == {"none", "valid", "invalid", "partial"}

Next ==
    \/ \E d \in SpecDirs : MkDir(d)
    \/ \E f \in SpecFiles : AddFile(f)
    \/ \E f \in files : RemoveFile(f)
    \/ \E g \in BOOLEAN : StartRun(g, FALSE, FALSE)
    \/ \E stuck \in SUBSET DOMAIN tdisk : validate_and_purge_bad_transcodes(stuck)
    \/ \E enc \in EncoderOutcomes, ul \in BOOLEAN : CreateMediaItem(enc, ul, "none", "none")
    \/ \E stuck \in SUBSET DOMAIN tdisk : FinishRun(stuck)

Spec == Init /\ [][Next]_vars

----------------------------------------------------------------------------
(* The collector on a tree that is built and then scanned: the tree changes *)
(* only before the first run, so that a result is the result for the tree   *)
(* of the state.                                                            *)

\* the trees of SpecTree: a chain of two directories, a hidden directory, a
\* video in each of them, a second video, a hidden video and a cover image
TreeDirs == {DirA, DirAC, DirHidden}
TreeFiles ==
    {MediaFile(d, <<"x", ".", "m", "p", "4">>) : d \in {Root, DirA, DirAC, DirHidden}}
      \cup {MediaFile(DirAC, <<"y", ".", "m", "p", "4">>), MediaFile(DirA, <<".", "z", ".", "m", "p", "4">>),
            MediaFile(DirAC, <<"p", "o", "s", "t", "e", "r", ".", "j", "p", "g">>)}
TreeSidecars == {OkSidecar([name |-> <<"T">>])}

NextTree ==
    \/ \E d \in TreeDirs : runs = 0 /\ MkDir(d)
    \/ \E f \in TreeFiles : runs = 0 /\ AddFile(f)
    \/ \E sc \in TreeSidecars : runs = 0 /\ WriteSidecar(DirA, sc)
    \/ StartRun(FALSE, FALSE, FALSE)
    \/ CreateMediaItem("none", TRUE, "none", "none")
    \/ FinishRun({})

SpecTree == Init /\ [][NextTree]_vars

\* a run has returned its result
Returned == pc = "idle" /\ runs > 0

\* the files of d with a media extension
MediaFilesOf(d) == {f \in files : f.dir = d /\ HasMediaSuffix(f.name)}

\* the directory nodes of a list of items, at any depth
RECURSIVE NodesOf(_)
NodesOf(items) ==
    UNION {IF IsDirectory(items[i])
           THEN {items[i]} \cup NodesOf(items[i].children)
           ELSE {} : i \in 1..Len(items)}

\* the media items among a list of items
MediaOf(items) == {items[i] : i \in {k \in 1..Len(items) : IsMedia(items[k])}}

----------------------------------------------------------------------------
(* C3 *)

\* root has a file with a media extension directly in it
HasLooseMedia == MediaFilesOf(Root) # {}

\* an immediate subdirectory of the root has a file with a media extension
\* directly in it
HasMediaSubdir == \E d \in dirs : Len(d) = 1 /\ MediaFilesOf(d) # {}

\* C3: detect_media_structure(root) is flat when the root has media files directly
\* in it and no immediate subdirectory that contains one, nested when only
\* immediate subdirectories contain media, mixed when both, and nested when
\* neither (a media file being a file with a media extension).
C3_StructureClassification ==
    runs > 0 =>
        /\ (HasLooseMedia /\ ~HasMediaSubdir) => structure = "flat"
        /\ (~HasLooseMedia /\ HasMediaSubdir) => structure = "nested"
        /\ (HasLooseMedia /\ HasMediaSubdir) => structure = "mixed"
        /\ (~HasLooseMedia /\ ~HasMediaSubdir) => structure = "nested"

\* a root with a loose video and a subdirectory with a video was classified
C3_Witness == runs > 0 /\ HasLooseMedia /\ HasMediaSubdir /\ structure = "mixed"

----------------------------------------------------------------------------
(* C2 *)

\* C2: in the catalog collect_media_items returns, every directory node at any
\* depth has at least one child, and none has exactly one media child and no
\* directory child; a chain of single-item directories is one media item.
C2_NoEmptyOrSingleItemDirectory ==
    Returned =>
        \A n \in NodesOf(result.items) :
            /\ n.children # <<>>
            /\ ~(/\ Cardinality(MediaOf(n.children)) = 1
                 /\ NodesOf(n.children) = {})

\* the chain a/c/x.mp4 alone in the tree is one media item of the root: no
\* directory node is left of it
C2_Witness ==
    /\ Returned
    /\ files = {MediaFile(DirAC, <<"x", ".", "m", "p", "4">>)}
    /\ Len(result.items) = 1
    /\ IsMedia(result.items[1])
    /\ result.items[1].path = <<"a", "/", "c", "/", "x", ".", "m", "p", "4">>

----------------------------------------------------------------------------
(* C1 *)

\* the scan reaches d: no name on its path is hidden
Scanned(d) == \A i \in 1..Len(d) : ~IsHidden(d[i])

\* the directories C1 speaks of: not hidden, in a scanned directory, with exactly
\* one media file, no subdirectory and no metadata.json
SingleMediaDirs ==
    {d \in dirs \ {Root} : /\ Scanned(d)
                           /\ Cardinality(MediaFilesOf(d)) = 1
                           /\ SubDirsOf(d) = {}
                           /\ sidecar[d].state = "none"}

\* the one media file of such a directory
TheMediaOf(d) == CHOOSE f \in MediaFilesOf(d) : TRUE

\* the catalog has a level for directory p: p is the root, or has a node
Kept(p) == p = Root \/ \E n \in NodesOf(result.items) : n.path = JoinWith(p, <<"/">>)

\* the items the catalog reports at the level of p
LevelOf(p) ==
    IF p = Root THEN result.items
    ELSE IF Kept(p)
    THEN (CHOOSE n \in NodesOf(result.items) : n.path = JoinWith(p, <<"/">>)).children
    ELSE <<>>

\* the level of d's parent has a media item for d's file, named as d
PromotedAt(d) ==
    \E it \in MediaOf(LevelOf(Parent(d))) :
        /\ it.path = PathStr(d, TheMediaOf(d).name)
        /\ it.name = d[Len(d)]

\* the catalog has no directory node for d
NoNodeFor(d) == \A n \in NodesOf(result.items) : n.path # JoinWith(d, <<"/">>)

\* C1 as stated: every such directory D has, at the level of its parent, a media
\* item for its file named as D, and no directory node.
C1_AsStated ==
    Returned => \A d \in SingleMediaDirs : PromotedAt(d) /\ NoNodeFor(d)

\* C1, amended: no such directory D has a directory node; and if its file is one
\* the collector takes (not hidden, not named as a thumbnail) and D's parent is
\* the root or has a directory node in the catalog, then the level of the parent
\* has a media item for the file, named as D.
C1_PromotedWhereParentIsKept ==
    Returned =>
        \A d \in SingleMediaDirs :
            /\ NoNodeFor(d)
            /\ (TheMediaOf(d).name \in MediaNamesIn(d) /\ Kept(Parent(d)))
                  => PromotedAt(d)

\* a/c holds one video, its parent a holds another and is a node of the catalog,
\* and the video of a/c is an item named c among the children of a
C1_Witness ==
    /\ Returned
    /\ DirAC \in SingleMediaDirs
    /\ DirA # Root /\ Kept(DirA)
    /\ PromotedAt(DirAC)

----------------------------------------------------------------------------
(* The light search index on names and descriptions drawn from a bounded    *)
(* set: Init draws the text, the actions index it as a name or as a         *)
(* description.                                                             *)

\* the longest text that is indexed
MaxTextLen == 4

\* the characters of the texts: a lower-case and an upper-case letter, a digit,
\* the underscore and the space
TokAlphabet == {"a", "B", "1", "_", " "}

Texts == UNION {[1..n -> TokAlphabet] : n \in 0..MaxTextLen}

\* everything but pc, text and out
quietVars == <<dirs, files, sidecar, unlistable, tdisk, edits, runs, gen, structure,
               primary, queue, raw, encodes, unlinkFailed, encFailed, prev, processed,
               result, adisk, genThumbs, genMotion, thumbReqs, procs, wpc, outs>>

\* no tree, no run
InitQuiet ==
    /\ dirs = {Root}
    /\ files = {}
    /\ sidecar = [d \in {Root} |-> NoSidecar]
    /\ unlistable = EmptyDict
    /\ outs = NoOutputs
    /\ InitRun

InitTok ==
    /\ InitQuiet
    /\ text \in Texts
    /\ out = <<>>

\* a processed item with this name and description
ProcessedItem(name, description) ==
    [name |-> name, created_time |-> None, size |-> 1024, media_type |-> <<"v", "i", "d", "e", "o">>,
     description |-> description, path |-> <<"x", ".", "m", "p", "4">>, primary_media |-> <<"x", ".", "m", "p", "4">>]

\* build_index, line 127, for one item whose name is the text
IndexName ==
    /\ pc = "idle"
    /\ out' = _build_base_search_index(<<ProcessedItem(text, None)>>)
    /\ pc' = "named"
    /\ UNCHANGED <<quietVars, text>>

\* build_index, line 127, for one item whose description is the text
IndexDescription ==
    /\ pc = "idle"
    /\ out' = _build_base_search_index(<<ProcessedItem(<<"x">>, text)>>)
    /\ pc' = "described"
    /\ UNCHANGED <<quietVars, text>>

NextTok == IndexName \/ IndexDescription

SpecTok == InitTok /\ [][NextTok]_vars

\* the tokens of the light index in out
LightTokens == DOMAIN out.name_terms \cup DOMAIN out.description_terms

\* C4: every token of name_terms and description_terms has at least 3 characters
\* and consists of lower-case letters and digits only, no underscore or other
\* character.
C4_TokensAlphanumeric ==
    pc \in {"named", "described"} =>
        \A w \in LightTokens :
            /\ Len(w) >= 3
            /\ \A i \in 1..Len(w) : w[i] \in LowerLetters \cup Digits

----------------------------------------------------------------------------
(* The SRT parser on texts made of well-formed blocks: Init draws the       *)
(* blocks and the blank line between them, the action writes them to a      *)
(* file and parses it.                                                      *)

\* the most blocks of a text
MaxBlocks == 2

\* the start times and the texts of the blocks
SrtStarts == {<<"0", "0", ":", "0", "0", ":", "0", "1", ",", "0", "0", "0">>, <<"0", "0", ":", "0", "0", ":", "0", "5", ",", "0", "0", "0">>}
SrtTexts == {<<"H", "e", "l", "l", "o", " ", "w", "o", "r", "l", "d">>, <<"G", "o", "o", "d", "b", "y", "e">>, <<"<", "i", ">", "H", "i", "<", "/", "i", ">">>, <<"<", "b", ">", "<", "/", "b", ">">>, <<"a", "\n", "b">>}
SrtBlockChoices == [start : SrtStarts, text : SrtTexts]

\* the blank lines between two blocks
SrtSeparators == {<<"\n", "\n">>, <<"\n", " ", "\n">>}

SrtInputs ==
    [blocks : UNION {[1..n -> SrtBlockChoices] : n \in 1..MaxBlocks}, sep : SrtSeparators]

InitSrt ==
    /\ InitQuiet
    /\ text \in SrtInputs
    /\ out = <<>>

\* block i as it is written: its index line, its timing line, its text
RenderBlock(b, i) ==
    <<CHOOSE c \in Digits : DigitValue(c) = i>> \o <<"\n">>
      \o b.start \o <<" ", "-", "-", ">", " ", "0", "0", ":", "0", "0", ":", "0", "9", ",", "0", "0", "0">> \o <<"\n">> \o b.text

\* the blocks from the i-th on, with sep between them and a newline at the end
RECURSIVE RenderFrom(_, _, _)
RenderFrom(blocks, sep, i) ==
    IF i > Len(blocks) THEN <<"\n">>
    ELSE IF i = Len(blocks) THEN RenderBlock(blocks[i], i) \o <<"\n">>
    ELSE RenderBlock(blocks[i], i) \o sep \o RenderFrom(blocks, sep, i + 1)

\* parse_subtitle_file on x.srt with the drawn blocks as its content
ParseSrtFile ==
    /\ pc = "idle"
    /\ out' = parse_subtitle_file(TextFile(Root, <<"x", ".", "s", "r", "t">>,
                                           RenderFrom(text.blocks, text.sep, 1)))
    /\ pc' = "parsed"
    /\ UNCHANGED <<quietVars, text>>

NextSrt == ParseSrtFile

SpecSrt == InitSrt /\ [][NextSrt]_vars

\* "1\n00:00:01,000 --> ...\nHello world\n\n2\n00:00:05,000 --> ...\nGoodbye\n"
IsTwoBlockExample ==
    text.blocks = <<[start |-> <<"0", "0", ":", "0", "0", ":", "0", "1", ",", "0", "0", "0">>, text |-> <<"H", "e", "l", "l", "o", " ", "w", "o", "r", "l", "d">>],
                    [start |-> <<"0", "0", ":", "0", "0", ":", "0", "5", ",", "0", "0", "0">>, text |-> <<"G", "o", "o", "d", "b", "y", "e">>]>>

\* C5: a text of N well-formed blocks (index line, timing line, non-empty text)
\* separated by blank lines parses to exactly N entries in block order, the i-th
\* with the start time and the text of block i, the markup of the text taken
\* out; the two-block example gives (00:00:01,000, Hello world) and
\* (00:00:05,000, Goodbye).
C5_OneEntryPerBlock ==
    pc = "parsed" =>
        /\ Len(out.timestamps) = Len(text.blocks)
        /\ Len(out.text) = Len(text.blocks)
        /\ \A i \in 1..Len(text.blocks) :
              /\ out.timestamps[i] = text.blocks[i].start
              /\ out.text[i] = RemoveTags(text.blocks[i].text, "<", ">")
        /\ IsTwoBlockExample =>
              /\ out.timestamps = <<<<"0", "0", ":", "0", "0", ":", "0", "1", ",", "0", "0", "0">>, <<"0", "0", ":", "0", "0", ":", "0", "5", ",", "0", "0", "0">>>>
              /\ out.text = <<<<"H", "e", "l", "l", "o", " ", "w", "o", "r", "l", "d">>, <<"G", "o", "o", "d", "b", "y", "e">>>>

----------------------------------------------------------------------------
(* The metadata of the processed items, on trees with dated file names and  *)
(* metadata.json files; the tree changes only before the first run.         *)

\* the trees of SpecMeta: the root and one directory, files with a date, with an
\* impossible date and with none in their names
MetaDirs == {DirA}
MetaFiles ==
    {MediaFile(Root, <<"T", "r", "i", "p", "_", "2", "0", "2", "3", "-", "0", "5", "-", "1", "0", ".", "m", "p", "4">>), MediaFile(Root, <<"x", ".", "m", "p", "4">>),
     MediaFile(Root, <<"v", "_", "2", "0", "2", "3", "-", "1", "3", "-", "4", "5", ".", "m", "p", "4">>),
     MediaFile(DirA, <<"T", "r", "i", "p", "_", "2", "0", "2", "3", "-", "0", "5", "-", "1", "0", ".", "m", "p", "4">>), MediaFile(DirA, <<"2", "0", "2", "3", "0", "5", "1", "0", ".", "m", "p", "4">>)}

\* the metadata.json files: a name, a date, an empty name and a null date, and
\* one that does not parse
MetaSidecars ==
    {OkSidecar([name |-> <<"N">>]),
     OkSidecar([created_time |-> <<"2", "0", "2", "0", "-", "0", "1", "-", "0", "1">>]),
     OkSidecar([name |-> <<>>, created_time |-> None]),
     BadSidecar}

NextMeta ==
    \/ \E d \in MetaDirs : runs = 0 /\ MkDir(d)
    \/ \E f \in MetaFiles : runs = 0 /\ AddFile(f)
    \/ \E d \in dirs, sc \in MetaSidecars :
          runs = 0 /\ sidecar[d] = NoSidecar /\ WriteSidecar(d, sc)
    \/ StartRun(FALSE, FALSE, FALSE)
    \/ CreateMediaItem("none", TRUE, "none", "none")
    \/ FinishRun({})

SpecMeta == Init /\ [][NextMeta]_vars

\* the date that a file name of MetaFiles carries, as datetime.isoformat() gives
\* it, or None: 2023-13-45 is no date
DateInName(name) ==
    IF name \in {<<"T", "r", "i", "p", "_", "2", "0", "2", "3", "-", "0", "5", "-", "1", "0", ".", "m", "p", "4">>, <<"2", "0", "2", "3", "0", "5", "1", "0", ".", "m", "p", "4">>}
    THEN <<"2", "0", "2", "3", "-", "0", "5", "-", "1", "0", "T", "0", "0", ":", "0", "0", ":", "0", "0">>
    ELSE None

\* the file of a processed item
FileOf(p) == CHOOSE f \in files : PathStr(f.dir, f.name) = p.path

\* the metadata.json of the directory of a processed item
SidecarOf(p) == sidecar[FileOf(p).dir]

----------------------------------------------------------------------------
(* C6 *)

\* C6: a media file without a sidecar whose stem holds a valid YYYY-MM-DD date,
\* as Trip_2023-05-10.mp4 in the root, is resolved to created_time = that date
\* and name = the stem without the date and the separators around it (Trip).
C6_DateAndNameFromFileName ==
    Returned =>
        \A i \in 1..Len(processed) :
            (/\ processed[i].path = <<"T", "r", "i", "p", "_", "2", "0", "2", "3", "-", "0", "5", "-", "1", "0", ".", "m", "p", "4">>
             /\ SidecarOf(processed[i]).state = "none")
            => /\ processed[i].created_time = <<"2", "0", "2", "3", "-", "0", "5", "-", "1", "0", "T", "0", "0", ":", "0", "0", ":", "0", "0">>
               /\ processed[i].name = <<"T", "r", "i", "p">>

----------------------------------------------------------------------------
(* C9 *)

\* the item of the catalog that the i-th processed item was made from
CatalogItem(i) == _flatten_items(result.items)[i]

\* a parseable sidecar supplies the key: it has it, with a value that is neither
\* null nor empty
Supplies(sc, key) == sc.state = "ok" /\ key \in DOMAIN sc.md /\ Truthy(sc.md[key])

----------------------------------------------------------------------------
(* C7 *)

\* the name of the transcode of the source at path
ArtifactOf(path) == Stem(PathName(path)) \o <<"_", "w", "e", "b", ".", "m", "p", "4">>

\* the second of two passes in succession with transcode generation
SecondPass == runs >= 2 /\ gen /\ prev.gen

\* the sources that both passes have processed
ProcessedTwice == DOMAIN raw \cap prev.sources

\* the first pass left an artifact for the source that probes valid
LeftValid(path) ==
    /\ ArtifactOf(path) \in DOMAIN prev.tdisk
    /\ prev.tdisk[ArtifactOf(path)].valid

----------------------------------------------------------------------------
(* C8 *)

\* the paths of the current result set
ResultPaths == {processed[i].path : i \in 1..Len(processed)}

\* C8: when a run with transcode generation has returned, no file of the
\* transcode directory is left whose source is not in the result set (no unlink
\* having failed).
C8_NoTranscodeWithoutSource ==
    (Returned /\ gen /\ ~unlinkFailed) =>
        \A n \in DOMAIN tdisk : tdisk[n].src \in ResultPaths

----------------------------------------------------------------------------
(* C10 *)

\* the media items of a catalog, at any depth
CatalogMedia(items) == MediaOf(items) \cup UNION {MediaOf(n.children) : n \in NodesOf(items)}

\* C10: no media item of the catalog under `items` carries a subtitles list, and
\* an item with a subtitle track that is not empty carries has_subtitles = true.
C10_NoSubtitlePayloadInCatalog ==
    Returned =>
        \A item \in CatalogMedia(result.items) :
            /\ "subtitles" \notin DOMAIN item
            /\ ("subtitles" \in DOMAIN raw[item.path] /\ raw[item.path].subtitles # <<>>)
                  => ("has_subtitles" \in DOMAIN item /\ item.has_subtitles)
----------------------------------------------------------------------------
(* C11 *)

\* the tokens of length >= 3 of a name or description of the catalog; a value
\* that is absent, null or empty has none
TokensOf(v) ==
    IF Truthy(v)
    THEN {w \in {FindWords(Lower(v))[k] : k \in 1..Len(FindWords(Lower(v)))} : Len(w) >= 3}
    ELSE {}

\* the posting list of token w in index_dict has position idx
Posted(index_dict, w, idx) ==
    /\ w \in DOMAIN index_dict
    /\ \E k \in 1..Len(index_dict[w]) : index_dict[w][k] = idx

\* C11: for the media item at position i of the depth-first flattening of the
\* returned catalog, every token of length >= 3 of its catalog name is a key of
\* name_terms whose posting list has i, and every token of its catalog
\* description is a key of description_terms whose posting list has i.
C11_CatalogTokensIndexed ==
    Returned =>
        \A i \in 1..Len(_flatten_items(result.items)) :
            /\ \A w \in TokensOf(CatalogItem(i).name) :
                   Posted(result.search_index.name_terms, w, i - 1)
            /\ \A w \in TokensOf(GetOr(CatalogItem(i), "description", None)) :
                   Posted(result.search_index.description_terms, w, i - 1)
----------------------------------------------------------------------------
(* cli and write_index_files: the index is built and the three output files *)
(* are written one after the other.  The root is a directory, or is missing, *)
(* or is not a directory; the output files are absent or left by an earlier  *)
(* run.                                                                      *)

\* a listing of the run raises and the exception leaves build_index and its
\* caller: nothing is returned.  (Without generated assets _create_media_item
\* changes nothing on disk, so a listing that raises below the root is modelled
\* where the run starts.)
ScanRaises ==
    /\ pc = "idle"
    /\ runs < MaxRuns
    /\ ListingRaises
    /\ wpc' = "raised"
    /\ UNCHANGED <<treeVars, tdisk, edits, runVars, outs, pureVars, raceVars, thumbVars>>

\* cli, lines 49-119: the input directory is checked, then the structure is
\* detected and write_index_files is called
Cli ==
    /\ pc = "idle"
    /\ wpc \in {"out", "done", "raised"}
    /\ wpc' = IF Root \notin dirs THEN "raised" ELSE "build"
    /\ UNCHANGED <<treeVars, tdisk, edits, runVars, outs, pureVars, raceVars, thumbVars>>

\* write_index_files called by another program, lines 252-255
WriteIndexFiles ==
    /\ pc = "idle"
    /\ wpc \in {"out", "done", "raised"}
    /\ wpc' = "build"
    /\ UNCHANGED <<treeVars, tdisk, edits, runVars, outs, pureVars, raceVars, thumbVars>>

\* the file that is written at w
OutputOf(w) ==
    CASE w = "json" -> "index.json"
      [] w = "subs" -> "index.subtitles.json"
      [] w = "html" -> "index.html"

\* w, the file being open
Opened(w) ==
    CASE w = "json" -> "json_open"
      [] w = "subs" -> "subs_open"
      [] w = "html" -> "html_open"

\* what follows the writing of the file of w
NextStage(w) ==
    CASE w = "json" -> "subs"
      [] w = "subs" -> "html"
      [] w = "html" -> "done"

WriteStages == {"json", "subs", "html"}

\* what is written to the file of w, for the index idx
Document(w, idx) ==
    CASE w = "json" -> Pop(idx, "_subtitle_index")
      [] w = "subs" -> idx._subtitle_index
      [] w = "html" -> "_INDEX_HTML"

\* open(path, "w"): the file is created or truncated, unless open raises
OpenOutput(w, ok) ==
    /\ wpc = w
    /\ w \in WriteStages
    /\ IF ok
       THEN /\ outs' = [outs EXCEPT ![OutputOf(w)] = [state |-> "partial", data |-> <<>>]]
            /\ wpc' = Opened(w)
       ELSE /\ outs' = outs
            /\ wpc' = "raised"
    /\ UNCHANGED <<treeVars, tdisk, edits, runVars, pureVars, raceVars, thumbVars>>

\* json.dump or write with the file open, and the close: the document is
\* complete, or the writing raises or is interrupted with a part of it written
FillOutput(w, ok) ==
    /\ w \in WriteStages
    /\ wpc = Opened(w)
    /\ IF ok
       THEN /\ outs' = [outs EXCEPT ![OutputOf(w)] =
                           [state |-> "complete", data |-> <<Document(w, result)>>]]
            /\ wpc' = NextStage(w)
       ELSE /\ outs' = outs
            /\ wpc' = "raised"
    /\ UNCHANGED <<treeVars, tdisk, edits, runVars, pureVars, raceVars, thumbVars>>

\* the output files an earlier run on an empty root has left
OldOutputs ==
    [n \in OutputFiles |->
        [state |-> "complete",
         data |-> <<Document(CHOOSE w \in WriteStages : OutputOf(w) = n, NoResult)>>]]

\* the root of the call: a directory, a path that does not exist, or a file
RootKinds == {"dir", "FileNotFoundError", "NotADirectoryError"}

InitWrite ==
    /\ \E k \in RootKinds :
          /\ dirs = IF k = "dir" THEN {Root} ELSE {}
          /\ unlistable = IF k = "dir" THEN EmptyDict ELSE [d \in {Root} |-> k]
    /\ files = {}
    /\ sidecar = [d \in {Root} |-> NoSidecar]
    /\ outs \in {NoOutputs, OldOutputs}
    /\ InitRun
    /\ InitPure

\* the files of SpecWrite: a video and its subtitle in the root
WriteFiles == {MediaFile(Root, <<"x", ".", "m", "p", "4">>), TextFile(Root, <<"x", ".", "s", "r", "t">>, OneCue)}

NextWrite ==
    \/ \E f \in WriteFiles : wpc = "out" /\ AddFile(f)
    \/ Cli
    \/ WriteIndexFiles
    \/ wpc = "build" /\ ScanRaises
    \/ wpc = "build" /\ StartRun(FALSE, FALSE, FALSE)
    \/ CreateMediaItem("none", TRUE, "none", "none")
    \/ FinishRun({})
    \/ \E w \in WriteStages, ok \in BOOLEAN : OpenOutput(w, ok)
    \/ \E w \in WriteStages, ok \in BOOLEAN : FillOutput(w, ok)

SpecWrite == InitWrite /\ [][NextWrite]_vars

----------------------------------------------------------------------------
(* C12 *)

\* the root of the call is not an existing directory
RootBroken == Root \notin dirs

\* C12: if the root does not exist or is not a directory, a call of cli or of
\* write_index_files ends with an error (it never gets to building or writing,
\* and never returns), and none of index.json, index.subtitles.json and
\* index.html is created or modified.
C12_BrokenRootWritesNothing ==
    /\ [](RootBroken => wpc \in {"out", "build", "raised"} /\ pc = "idle" /\ runs = 0)
    /\ [][RootBroken => outs' = outs]_vars

\* a call on a root that does not exist has raised, with the output files of an
\* earlier run still as they were
C12_Witness ==
    /\ RootBroken
    /\ wpc = "raised"
    /\ outs = OldOutputs

----------------------------------------------------------------------------
(* C13 *)

\* C13: at no point of a run, an error or an interruption of the writing
\* included, is index.json on disk half-written.
C13_CatalogNeverHalfWritten == outs["index.json"].state # "partial"
----------------------------------------------------------------------------
(* The scan of a tree in which directories cannot be listed: the tree is    *)
(* built, listings are denied, and build_index is called.                   *)

\* the trees of SpecScan: a directory, a hidden directory and a directory
\* below the first, with a video in the root and in the first
ScanDirs == {DirA, DirAC, DirHidden}
ScanFiles == {MediaFile(d, <<"x", ".", "m", "p", "4">>) : d \in {Root, DirA}}

NextScan ==
    \/ \E d \in ScanDirs : runs = 0 /\ wpc = "out" /\ MkDir(d)
    \/ \E f \in ScanFiles : runs = 0 /\ wpc = "out" /\ AddFile(f)
    \/ \E d \in dirs : runs = 0 /\ wpc = "out" /\ Deny(d)
    \/ ScanRaises
    \/ StartRun(FALSE, FALSE, FALSE)
    \/ CreateMediaItem("none", TRUE, "none", "none")
    \/ FinishRun({})

SpecScan == Init /\ [][NextScan]_vars

----------------------------------------------------------------------------
(* C14 *)

\* the media files of the directories that can be listed and that the scan
\* reaches
ReadableMedia ==
    {f \in files : /\ HasMediaSuffix(f.name)
                   /\ ~IsHidden(f.name)
                   /\ Scanned(f.dir)
                   /\ \A k \in 0..Len(f.dir) : SubSeq(f.dir, 1, k) \notin DOMAIN unlistable}

\* C14: a directory anywhere in the tree that cannot be listed never aborts the
\* scan (the root being a directory, build_index never ends by raising), and
\* the catalog of a run that has returned has an item for every media file of
\* the directories that can be listed.
C14_UnlistableDirectorySkipped ==
    /\ wpc # "raised"
    /\ Returned =>
          \A f \in ReadableMedia :
              \E item \in CatalogMedia(result.items) : item.path = PathStr(f.dir, f.name)
----------------------------------------------------------------------------
(* C15 *)

\* the directory of d is flattened: it is a subdirectory with exactly one media
\* file and no subdirectory
Flattened(d) == d # Root /\ Cardinality(MediaFilesOf(d)) = 1 /\ SubDirsOf(d) = {}

\* the name an item of file f has when its directory has no metadata.json
NameWithoutSidecar(f) == IF Flattened(f.dir) THEN f.dir[Len(f.dir)] ELSE Stem(f.name)

\* the directories whose metadata.json exists and does not parse
BadDirs == {d \in dirs : sidecar[d].state = "bad"}

\* C15: with a metadata.json that does not parse the run completes, and every
\* item of that directory, and its directory node, has the name, created_time
\* and description it has without a metadata.json: the catalog item is named
\* after its file (after its directory when flattened) and has neither
\* created_time nor description, the processed item has the date of the file
\* name, if any, and no description, and the directory node has the
\* directory's name and neither created_time nor description.
C15_UnparsableSidecarAsAbsent ==
    /\ wpc # "raised"
    /\ Returned =>
          /\ \A i \in 1..Len(processed) :
                FileOf(processed[i]).dir \in BadDirs =>
                   /\ CatalogItem(i).name = NameWithoutSidecar(FileOf(processed[i]))
                   /\ {"created_time", "description"} \cap DOMAIN CatalogItem(i) = {}
                   /\ processed[i].name = NameWithoutSidecar(FileOf(processed[i]))
                   /\ processed[i].created_time = DateInName(FileOf(processed[i]).name)
                   /\ processed[i].description = None
          /\ \A n \in NodesOf(result.items) :
                (\E d \in BadDirs : n.path = JoinWith(d, <<"/">>)) =>
                   /\ n.name = PathName(n.path)
                   /\ {"created_time", "description"} \cap DOMAIN n = {}

\* a run has returned the item flattened out of directory a, whose
\* metadata.json does not parse, under the name a
C15_Witness ==
    /\ Returned
    /\ DirA \in BadDirs
    /\ \E i \in 1..Len(processed) :
          FileOf(processed[i]).dir = DirA /\ processed[i].name = <<"a">>
----------------------------------------------------------------------------
(* C16 *)

\* C16: when generate_video_transcode has failed for an item, the build still
\* completes and returns, the item is in the catalog, and it has no
\* `transcoded` field.
C16_FailedEncodingOmitsField ==
    /\ wpc # "raised"
    /\ (Returned /\ gen) =>
          \A s \in encFailed :
              \E item \in CatalogMedia(result.items) :
                  item.path = s /\ "transcoded" \notin DOMAIN item

----------------------------------------------------------------------------
(* C17 *)

\* the artifact n was in the transcode directory when the run started and does
\* not probe: the run finds it invalid
FoundInvalid(n) == n \in DOMAIN prev.tdisk /\ ~prev.tdisk[n].valid

\* the run has requested a new encoding of artifact n
Reencoded(n) == \E s \in encodes : ArtifactOf(s) = n

\* C17: an artifact that exists and fails the probe is deleted and encoded anew
\* in the same pass, so that when a run with transcode generation has returned,
\* no item's `transcoded` names an artifact that the run found invalid and did
\* not encode anew.
C17_InvalidArtifactReplaced ==
    (Returned /\ gen) =>
        \A item \in CatalogMedia(result.items) :
            ("transcoded" \in DOMAIN item /\ FoundInvalid(ArtifactOf(item.path)))
                => Reencoded(ArtifactOf(item.path))
----------------------------------------------------------------------------
(* Two runs on a tree that does not change between them: the tree is built, *)
(* then build_index is called twice without generated assets.               *)

\* a subtitle with one cue
CueFile(d, name, words) ==
    TextFile(d, name, <<"1", "\n", "0", "0", ":", "0", "0", ":", "0", "1", ",", "0", "0", "0", " ", "-", "-", ">", " ", "0", "0", ":", "0", "0", ":", "0", "4", ",", "0", "0", "0", "\n">> \o words \o <<"\n">>)

DirX == <<<<"x">>>>

\* the trees of SpecOrder: two videos of the same stem and two subtitles for
\* them in the root, and a directory of that name with one video
OrderDirs == {DirX}
OrderFiles ==
    {MediaFile(Root, <<"x", ".", "m", "p", "4">>), MediaFile(Root, <<"x", ".", "m", "k", "v">>),
     CueFile(Root, <<"x", ".", "e", "n", ".", "s", "r", "t">>, <<"H", "e", "l", "l", "o">>), CueFile(Root, <<"x", ".", "f", "r", ".", "s", "r", "t">>, <<"B", "o", "n", "j", "o", "u", "r">>),
     MediaFile(DirX, <<"y", ".", "m", "p", "4">>)}

NextOrder ==
    \/ \E d \in OrderDirs : runs = 0 /\ MkDir(d)
    \/ \E f \in OrderFiles : runs = 0 /\ AddFile(f)
    \/ StartRun(FALSE, FALSE, FALSE)
    \/ CreateMediaItem("none", TRUE, "none", "none")
    \/ FinishRun({})

SpecOrder == Init /\ [][NextOrder]_vars

----------------------------------------------------------------------------
(* C18 *)

\* C18: when build_index has run twice on an unchanged tree with the same
\* flags, the second catalog is the first one: the same items in the same
\* order with the same fields, whatever the order in which the file system
\* lists the entries of a directory in each run.
C18_RerunYieldsSameCatalog ==
    (Returned /\ runs >= 2) => result.items = prev.items

----------------------------------------------------------------------------
(* C19 *)

\* no two entries of a list of items have the same name
UniqueNames(items) ==
    \A i, j \in 1..Len(items) : items[i].name = items[j].name => i = j

\* C19: in the top-level items of the catalog and in the children of every
\* directory node, no two entries have the same name, an item promoted under
\* its directory's name included.
C19_SiblingNamesUnique ==
    Returned =>
        /\ UniqueNames(result.items)
        /\ \A n \in NodesOf(result.items) : UniqueNames(n.children)

----------------------------------------------------------------------------
(* The five subtitle parsers on cue lists written in the three timed        *)
(* formats: Init draws the cues and the format they are written in, each    *)
(* action applies one parser to the written text.                           *)

\* the second a cue starts at, and what the cue says
CueSeconds == {"1", "5"}
CueTexts == {<<"H", "e", "l", "l", "o">>, <<"B", "y", "e", ",", " ", "a", "l", "l">>, <<"<", "i", ">", "H", "i", "<", "/", "i", ">">>, <<"<", "b", ">", "<", "/", "b", ">">>, <<"{", "b", "}">>, <<>>}
CueChoices == [start : CueSeconds, text : CueTexts]

CueFormats == {"srt", "vtt", "ass"}

CueInputs ==
    [cues : UNION {[1..n -> CueChoices] : n \in 1..MaxBlocks}, format : CueFormats]

\* the start time of a cue as the format writes it
StartIn(format, second) ==
    IF format = "srt" THEN <<"0", "0", ":", "0", "0", ":", "0">> \o <<second>> \o <<",", "0", "0", "0">>
    ELSE IF format = "vtt" THEN <<"0", "0", ":", "0", "0", ":", "0">> \o <<second>> \o <<".", "0", "0", "0">>
    ELSE <<"0", ":", "0", "0", ":", "0">> \o <<second>> \o <<".", "0", "0">>

\* cue i as the format writes it, with the blank line after it
RenderCue(format, c, i) ==
    IF format = "srt"
    THEN <<CHOOSE d \in Digits : DigitValue(d) = i>> \o <<"\n">>
           \o StartIn(format, c.start) \o <<" ", "-", "-", ">", " ", "0", "0", ":", "0", "0", ":", "0", "9", ",", "0", "0", "0">> \o <<"\n">>
           \o c.text \o <<"\n", "\n">>
    ELSE IF format = "vtt"
    THEN StartIn(format, c.start) \o <<" ", "-", "-", ">", " ", "0", "0", ":", "0", "0", ":", "0", "9", ".", "0", "0", "0">> \o <<"\n">>
           \o c.text \o <<"\n", "\n">>
    ELSE <<"D", "i", "a", "l", "o", "g", "u", "e", ":", " ", "0", ",">> \o StartIn(format, c.start) \o <<",", "0", ":", "0", "0", ":", "0", "9", ".", "0", "0", ",", "D", ",", ",", "0", ",", "0", ",", "0", ",", ",">>
           \o c.text \o <<"\n">>

RECURSIVE RenderCues(_, _, _)
RenderCues(format, cues, i) ==
    IF i > Len(cues) THEN <<>>
    ELSE RenderCue(format, cues[i], i) \o RenderCues(format, cues, i + 1)

\* the text of the file: the header of the format, then the cues
RenderText(t) ==
    (IF t.format = "vtt" THEN <<"W", "E", "B", "V", "T", "T", "\n", "\n">>
     ELSE IF t.format = "ass" THEN <<"[", "E", "v", "e", "n", "t", "s", "]", "\n">>
     ELSE <<>>) \o RenderCues(t.format, t.cues, 1)

Parsers == {"_parse_srt", "_parse_vtt", "_parse_ass", "_parse_sub", "_parse_generic_subtitle"}

ParserResult(parser, content) ==
    IF parser = "_parse_srt" THEN _parse_srt(content)
    ELSE IF parser = "_parse_vtt" THEN _parse_vtt(content)
    ELSE IF parser = "_parse_ass" THEN _parse_ass(content)
    ELSE IF parser = "_parse_sub" THEN _parse_sub(content)
    ELSE _parse_generic_subtitle(content)

InitCues ==
    /\ InitQuiet
    /\ text \in CueInputs
    /\ out = <<>>

\* one parser applied to the drawn text; pc names the parser that returned
Parse(parser) ==
    /\ pc = "idle"
    /\ out' = ParserResult(parser, RenderText(text))
    /\ pc' = parser
    /\ UNCHANGED <<quietVars, text>>

NextCues == \E parser \in Parsers : Parse(parser)

SpecCues == InitCues /\ [][NextCues]_vars

\* the parser of the format the text is written in
ParserOf(format) ==
    IF format = "srt" THEN "_parse_srt"
    ELSE IF format = "vtt" THEN "_parse_vtt"
    ELSE "_parse_ass"

\* the text of a cue with the markup its parser removes taken out
CueTextIn(format, txt) ==
    IF format = "srt" THEN RemoveTags(txt, "<", ">")
    ELSE IF format = "ass" THEN RemoveTags(txt, "{", "}")
    ELSE txt

\* C20: whatever the parser and the text, the returned text and timestamps
\* lists have the same length, and when the parser is the one of the text's
\* format, text[i] and timestamps[i] are the text and the start time of one
\* and the same cue.
C20_TimestampsPairedWithTexts ==
    pc \in Parsers =>
        /\ Len(out.text) = Len(out.timestamps)
        /\ pc = ParserOf(text.format) =>
              \A i \in 1..Len(out.text) :
                  \E k \in 1..Len(text.cues) :
                      /\ out.text[i] = CueTextIn(text.format, text.cues[k].text)
                      /\ out.timestamps[i] = StartIn(text.format, text.cues[k].start)

----------------------------------------------------------------------------
(* Markup in accepted cue texts *)

\* the characters that open and close a tag in the format
TagOpen(format) == IF format = "ass" THEN "{" ELSE "<"
TagClose(format) == IF format = "ass" THEN "}" ELSE ">"

\* whether s holds a tag sequence of the format
HasTag(format, s) == RemoveTags(s, TagOpen(format), TagClose(format)) # s

\* C21: when the parser of the text's format has returned, no accepted text
\* holds a tag sequence of that format.
C21_NoMarkupInAcceptedText ==
    pc = ParserOf(text.format) =>
        \A i \in 1..Len(out.text) : ~HasTag(text.format, out.text[i])

----------------------------------------------------------------------------
(* C22 *)

\* the .mp4 files of the transcode directory that do not probe
FailingTranscodes == {n \in DOMAIN tdisk : Lower(Suffix(n)) = <<".", "m", "p", "4">> /\ ~tdisk[n].valid}

\* C22: a run with transcode generation begins with the pre-flight pass, no
\* media item is created before the pass has completed, and when it completes
\* with every deletion done no .mp4 file that fails validation is left in the
\* transcode directory.
C22_PreflightPurgesBeforeItems ==
    /\ [][(pc = "idle" /\ pc' # "idle" /\ gen') => pc' = "preflight"]_vars
    /\ [](pc = "preflight" => raw = EmptyDict /\ encodes = {})
    /\ [][(pc = "preflight" /\ pc' # "preflight") =>
             /\ pc' = "items"
             /\ raw' = EmptyDict
             /\ ~unlinkFailed' => FailingTranscodes' = {}]_vars

\* the pre-flight pass has just deleted a file that did not probe, and the
\* first media item is still to be created
C22_Witness ==
    /\ pc = "items"
    /\ gen
    /\ raw = EmptyDict
    /\ queue # <<>>
    /\ ~unlinkFailed
    /\ \E n \in DOMAIN prev.tdisk : ~prev.tdisk[n].valid /\ n \notin DOMAIN tdisk

----------------------------------------------------------------------------
(* Runs with thumbnail generation: a video and an audio file in the root,   *)
(* an image named after the video and an image with a generic name and a   *)
(* resolution.                                                              *)

ThumbFiles ==
    {MediaFile(Root, <<"x", ".", "m", "p", "4">>), MediaFile(Root, <<"y", ".", "m", "p", "3">>),
     MediaFile(Root, <<"x", "_", "t", "h", "u", "m", "b", ".", "j", "p", "g">>), MediaFile(Root, <<"t", "h", "u", "m", "b", "_", "2", "x", ".", "p", "n", "g">>)}

NextThumb ==
    \/ \E f \in ThumbFiles : runs = 0 /\ AddFile(f)
    \/ \E f \in files : RemoveFile(f)
    \/ \E t, m \in BOOLEAN : StartRun(FALSE, t, m)
    \/ \E th \in ThumbOutcomes, mo \in MotionOutcomes : CreateMediaItem("none", TRUE, th, mo)
    \/ FinishRun({})

SpecThumb == Init /\ [][NextThumb]_vars

\* C23: generate_video_thumbnail is called for a media file only if thumbnail
\* generation is enabled, the file is a video, no candidate image was found
\* for it and the output of the call is not yet in the thumbnails directory.
C23_ThumbnailRequestedOnlyWhenNeeded ==
    [][thumbReqs' \ thumbReqs # {} =>
          /\ genThumbs
          /\ IsVideo(Head(queue))
          /\ ThumbnailMatches(Head(queue)) = {}
          /\ \A r \in thumbReqs' \ thumbReqs : r.output \notin adisk]_vars

----------------------------------------------------------------------------
(* C24 *)

\* the media files of f's directory that have f's stem
SameStem(f) ==
    {g \in files : g.dir = f.dir /\ g.name \in MediaNamesIn(g.dir) /\ Stem(g.name) = Stem(f.name)}

\* the first of them by sort order
FirstBySortOrder(f) ==
    CHOOSE g \in SameStem(f) : \A h \in SameStem(f) \ {g} : StrLess(g.name, h.name)

\* the positions of the processed items made from a file of SameStem(f)
ItemsOfStem(f) ==
    {i \in 1..Len(processed) :
        \E g \in SameStem(f) : processed[i].primary_media = PathStr(g.dir, g.name)}

\* C24: for every media file, the catalog has exactly one MediaItem for the
\* files of its directory that share its stem, and the primary file of that
\* item is the first of them by sort order.
C24_FirstBySortOrderIsPrimary ==
    Returned =>
        \A f \in files :
            f.name \in MediaNamesIn(f.dir) =>
                /\ Cardinality(ItemsOfStem(f)) = 1
                /\ \A i \in ItemsOfStem(f) :
                      processed[i].primary_media
                          = PathStr(FirstBySortOrder(f).dir, FirstBySortOrder(f).name)

----------------------------------------------------------------------------
(* Runs with every generator or none on a chain of two directories that   *)
(* holds a video in a/c from the start; a subtitle for it, a second video   *)
(* in a, and a metadata.json for either directory are added before the      *)
(* first run.                                                               *)

PromoFiles ==
    {CueFile(DirAC, <<"x", ".", "s", "r", "t">>, <<"H", "e", "l", "l", "o">>), MediaFile(DirA, <<"y", ".", "m", "p", "4">>)}
PromoSidecars ==
    {OkSidecar([name |-> <<"T">>, created_time |-> <<"2", "0", "2", "0", "-", "0", "1", "-", "0", "1">>, description |-> <<"D">>])}

InitPromo ==
    /\ dirs = {Root, DirA, DirAC}
    /\ files = {MediaFile(DirAC, <<"x", ".", "m", "p", "4">>)}
    /\ sidecar = [d \in {Root, DirA, DirAC} |-> NoSidecar]
    /\ unlistable = EmptyDict
    /\ outs = NoOutputs
    /\ InitRun
    /\ InitPure

NextPromo ==
    \/ \E f \in PromoFiles : runs = 0 /\ AddFile(f)
    \/ \E d \in dirs \ {Root}, sc \in PromoSidecars : runs = 0 /\ WriteSidecar(d, sc)
    \/ \E all \in BOOLEAN : StartRun(all, all, all)
    \/ validate_and_purge_bad_transcodes({})
    \/ CreateMediaItem("none", TRUE, "none", "none")
    \/ CreateMediaItem("valid", TRUE, "made", "made")
    \/ FinishRun({})

SpecPromo == InitPromo /\ [][NextPromo]_vars

\* the fields promotion may change
PromotionFields == {"name", "created_time", "description"}

\* C25: every media item of the catalog, promoted or not, has the fields that
\* _create_media_item gave it, name, created_time and description excepted:
\* its path and primary_media are the path of its file from the root, and its
\* size, media_type, thumbs, motion_thumb, transcoded and subtitles are
\* unchanged.
C25_PromotionKeepsPathAndAssets ==
    Returned =>
        \A item \in CatalogMedia(result.items) :
            /\ item.path \in DOMAIN raw
            /\ \E f \in files : item.path = PathStr(f.dir, f.name)
            /\ item.primary_media = item.path
            /\ DOMAIN item \ PromotionFields = DOMAIN raw[item.path] \ PromotionFields
            /\ \A key \in DOMAIN item \ PromotionFields : item[key] = raw[item.path][key]

\* the video of a/c was promoted twice, to the top of the catalog, with a
\* thumbnail, a motion thumbnail, a transcode and a subtitle, and under the name
\* its directory's metadata.json gives
C25_Witness ==
    /\ Returned
    /\ \E i \in 1..Len(result.items) :
          /\ IsMedia(result.items[i])
          /\ result.items[i].path = <<"a", "/", "c", "/", "x", ".", "m", "p", "4">>
          /\ {"thumbs", "motion_thumb", "transcoded", "subtitles", "description"}
                \subseteq DOMAIN result.items[i]
          /\ result.items[i].name # raw[result.items[i].path].name
----------------------------------------------------------------------------
(* The posting lists of the two indexes, on a root that holds a directory   *)
(* with two videos from the start; videos, subtitles and metadata.json      *)
(* files are added before the first run.                                    *)

PostingFiles ==
    {MediaFile(Root, <<"x", ".", "m", "p", "4">>), CueFile(Root, <<"x", ".", "s", "r", "t">>, <<"H", "e", "l", "l", "o">>),
     CueFile(Root, <<"x", ".", "e", "n", ".", "s", "r", "t">>, <<"H", "e", "l", "l", "o">>), CueFile(DirA, <<"y", ".", "s", "r", "t">>, <<"H", "e", "l", "l", "o">>)}
PostingSidecars ==
    {OkSidecar([name |-> <<"H", "e", "l", "l", "o">>, description |-> <<"B", "y", "e", " ", "b", "y", "e", " ", "H", "e", "l", "l", "o">>])}

InitPostings ==
    /\ dirs = {Root, DirA}
    /\ files = {MediaFile(DirA, <<"y", ".", "m", "p", "4">>), MediaFile(DirA, <<"z", ".", "m", "p", "4">>)}
    /\ sidecar = [d \in {Root, DirA} |-> NoSidecar]
    /\ unlistable = EmptyDict
    /\ outs = NoOutputs
    /\ InitRun
    /\ InitPure

NextPostings ==
    \/ \E f \in PostingFiles : runs = 0 /\ AddFile(f)
    \/ \E f \in files : runs = 0 /\ RemoveFile(f)
    \/ \E d \in dirs, sc \in PostingSidecars : runs = 0 /\ WriteSidecar(d, sc)
    \/ StartRun(FALSE, FALSE, FALSE)
    \/ CreateMediaItem("none", TRUE, "none", "none")
    \/ FinishRun({})

SpecPostings == InitPostings /\ [][NextPostings]_vars

\* the three inverted indexes of the result
PostingIndexes ==
    {result.search_index.name_terms, result.search_index.description_terms,
     result._subtitle_index.subtitle_terms}

\* the depth-first flattening of the catalog
CatalogOrder == _flatten_items(result.items)

\* the words of the subtitle tracks of the item at path
TrackWords(path) ==
    IF "subtitles" \notin DOMAIN raw[path] THEN {}
    ELSE UNION {{FindWords(Lower(raw[path].subtitles[k].text_combined))[w] :
                    w \in 1..Len(FindWords(Lower(raw[path].subtitles[k].text_combined)))} :
                k \in 1..Len(raw[path].subtitles)}

\* the words of a text
WordsOf(s) == {FindWords(s)[w] : w \in 1..Len(FindWords(s))}

\* C26: in the result of build_index every posting list of name_terms,
\* description_terms and subtitle_terms is free of duplicates and holds only
\* positions p with 0 <= p < total_items = len(item_map), and position p stands
\* for the p-th media item of the depth-first flattening of the catalog: the
\* item of that path carries the term in its name, description or subtitles.
C26_PostingsArePositionsOfCatalog ==
    Returned =>
        /\ result.total_items = Len(result.search_index.item_map)
        /\ result.total_items = Len(CatalogOrder)
        /\ \A terms \in PostingIndexes : \A term \in DOMAIN terms :
              /\ \A i, j \in 1..Len(terms[term]) : terms[term][i] = terms[term][j] => i = j
              /\ \A k \in 1..Len(terms[term]) :
                    terms[term][k] \in 0..(result.total_items - 1)
        /\ \A p \in 1..Len(CatalogOrder) :
              /\ processed[p].path = CatalogOrder[p].path
              /\ result.search_index.item_map[p] = <<"u", "n", "k", "n", "o", "w", "n", "_">> \o CatalogOrder[p].path
        /\ \A term \in DOMAIN result.search_index.name_terms :
              \A p \in 0..(result.total_items - 1) :
                 Posted(result.search_index.name_terms, term, p)
                    => term \in WordsOf(Lower(processed[p + 1].name))
        /\ \A term \in DOMAIN result.search_index.description_terms :
              \A p \in 0..(result.total_items - 1) :
                 Posted(result.search_index.description_terms, term, p)
                    => term \in WordsOf(Lower(processed[p + 1].description))
        /\ \A term \in DOMAIN result._subtitle_index.subtitle_terms :
              \A p \in 0..(result.total_items - 1) :
                 Posted(result._subtitle_index.subtitle_terms, term, p)
                    => term \in TrackWords(CatalogOrder[p + 1].path)

\* a returned catalog with a directory node and a media item beside it, where a
\* term of each index has a posting list, one of more than one position and one
\* for an item whose texts hold the term twice
C26_Witness ==
    /\ Returned
    /\ \E i \in 1..Len(result.items) : result.items[i].type = "directory"
    /\ \E i \in 1..Len(result.items) : result.items[i].type = "media"
    /\ \A terms \in PostingIndexes : DOMAIN terms # {}
    /\ \E term \in DOMAIN result.search_index.name_terms :
          Len(result.search_index.name_terms[term]) > 1
    /\ \E term \in DOMAIN result.search_index.description_terms :
          term = <<"b", "y", "e">>
----------------------------------------------------------------------------
(* Two processes that run build_index(root, generate_transcodes = True) on  *)
(* the same root side by side. The tree holds two videos and does not       *)
(* change; the transcode directory is shared. Every access of a process to  *)
(* the transcode directory is a step of its own, and ffmpeg, which always   *)
(* succeeds, writes its output in place between two steps.                  *)

Processes == {"p1", "p2"}

RaceFiles == {MediaFile(Root, <<"x", ".", "m", "p", "4">>), MediaFile(Root, <<"y", ".", "m", "p", "4">>)}

InitRace ==
    /\ dirs = {Root}
    /\ files = RaceFiles
    /\ sidecar = [d \in {Root} |-> NoSidecar]
    /\ unlistable = EmptyDict
    /\ outs = NoOutputs
    /\ InitRun
    /\ InitPure

\* process p goes on as the record to
Move(p, to) == procs' = [procs EXCEPT ![p] = to]

\* the .mp4 files of the transcode directory, sorted (utils.py 661, 665)
PurgeListing == SortStrings({n \in DOMAIN tdisk : Lower(Suffix(n)) = <<".", "m", "p", "4">>})

\* transcode_dir.iterdir() of cleanup_old_transcodes (utils.py 629)
CleanupListing == SortStrings(DOMAIN tdisk)

\* the artifact of the video a process is at
ArtifactAt(st) == TranscodeName(Head(st.todo))

\* the processes whose ffmpeg is writing the file that has the name n
WritersOf(n) ==
    {q \in DOMAIN procs : procs[q].pc = "encoding" /\ procs[q].linked /\ ArtifactAt(procs[q]) = n}

\* unlink of n by process p, which goes on as the record to: the name is taken
\* from the directory, and an ffmpeg that is writing the file keeps writing a
\* file without a name; an unlink of a name that is gone raises, which every
\* caller catches
Unlink(p, n, to) ==
    /\ tdisk' = Without(tdisk, {n})
    /\ procs' = [q \in DOMAIN procs |->
                    IF q = p THEN to
                    ELSE IF q \in WritersOf(n) THEN [procs[q] EXCEPT !.linked = FALSE]
                    ELSE procs[q]]

raceQuiet == <<treeVars, edits, runVars, pureVars, thumbVars, outVars>>

\* build_index is started: collect_media_items calls
\* validate_and_purge_bad_transcodes, which lists the transcode directory
Launch(p) ==
    /\ p \notin DOMAIN procs
    /\ procs' = Put(procs, p, [pc |-> "purge", todo |-> PurgeListing,
                               current_transcodes |-> {}, linked |-> FALSE])
    /\ UNCHANGED <<tdisk, raceQuiet>>

\* utils.py 662-666: the next file of the listing is probed
PurgeProbe(p) ==
    /\ p \in DOMAIN procs /\ procs[p].pc = "purge" /\ procs[p].todo # <<>>
    /\ LET st == procs[p]
           n == Head(st.todo)
       IN IF n \in DOMAIN tdisk /\ ~tdisk[n].valid
          THEN Move(p, [st EXCEPT !.pc = "purge_unlink"])
          ELSE Move(p, [st EXCEPT !.todo = Tail(st.todo)])
    /\ UNCHANGED <<tdisk, raceQuiet>>

\* utils.py 667-672: the file found invalid is unlinked
PurgeUnlink(p) ==
    /\ p \in DOMAIN procs /\ procs[p].pc = "purge_unlink"
    /\ Unlink(p, Head(procs[p].todo),
              [procs[p] EXCEPT !.pc = "purge", !.todo = Tail(procs[p].todo)])
    /\ UNCHANGED raceQuiet

\* utils.py 463-465: the pass is over, the tree is scanned
PurgeDone(p) ==
    /\ p \in DOMAIN procs /\ procs[p].pc = "purge" /\ procs[p].todo = <<>>
    /\ \E P \in Groupings :
          Move(p, [procs[p] EXCEPT !.pc = "exists", !.todo = CreationOrder(Root, P)])
    /\ UNCHANGED <<tdisk, raceQuiet>>

\* utils.py 397: if transcode_path.exists()
ItemExists(p) ==
    /\ p \in DOMAIN procs /\ procs[p].pc = "exists" /\ procs[p].todo # <<>>
    /\ Move(p, [procs[p] EXCEPT !.pc = IF ArtifactAt(procs[p]) \in DOMAIN tdisk
                                        THEN "probe" ELSE "absent"])
    /\ UNCHANGED <<tdisk, raceQuiet>>

\* utils.py 398: validate_transcode_file(transcode_path)
ItemProbe(p) ==
    /\ p \in DOMAIN procs /\ procs[p].pc = "probe"
    /\ LET n == ArtifactAt(procs[p])
       IN Move(p, [procs[p] EXCEPT !.pc = IF n \in DOMAIN tdisk /\ tdisk[n].valid
                                           THEN "absent" ELSE "unlink"])
    /\ UNCHANGED <<tdisk, raceQuiet>>

\* utils.py 400-403: transcode_path.unlink()
ItemUnlink(p) ==
    /\ p \in DOMAIN procs /\ procs[p].pc = "unlink"
    /\ Unlink(p, ArtifactAt(procs[p]), [procs[p] EXCEPT !.pc = "absent"])
    /\ UNCHANGED raceQuiet

\* utils.py 407: if not transcode_path.exists()
ItemAbsent(p) ==
    /\ p \in DOMAIN procs /\ procs[p].pc = "absent"
    /\ Move(p, [procs[p] EXCEPT !.pc = IF ArtifactAt(procs[p]) \in DOMAIN tdisk
                                        THEN "record" ELSE "encode"])
    /\ UNCHANGED <<tdisk, raceQuiet>>

\* utils.py 408, 601-602: ffmpeg opens its output, which creates the file or
\* truncates the one that is there
EncodeStart(p) ==
    /\ p \in DOMAIN procs /\ procs[p].pc = "encode"
    /\ tdisk' = Put(tdisk, ArtifactAt(procs[p]),
                    [valid |-> FALSE,
                     src |-> PathStr(Head(procs[p].todo).dir, Head(procs[p].todo).name)])
    /\ Move(p, [procs[p] EXCEPT !.pc = "encoding", !.linked = TRUE])
    /\ UNCHANGED raceQuiet

\* ffmpeg.run returns: the file it wrote is complete, and probes valid once no
\* other ffmpeg is writing it
EncodeEnd(p) ==
    /\ p \in DOMAIN procs /\ procs[p].pc = "encoding"
    /\ LET n == ArtifactAt(procs[p])
       IN tdisk' = IF procs[p].linked
                   THEN Put(tdisk, n, [tdisk[n] EXCEPT !.valid = (WritersOf(n) = {p})])
                   ELSE tdisk
    /\ Move(p, [procs[p] EXCEPT !.pc = "record", !.linked = FALSE])
    /\ UNCHANGED raceQuiet

\* utils.py 412-413 and indexer.py 117-118: if transcode_path.exists(), the item
\* gets its transcoded field, which build_index adds to current_transcodes
ItemRecord(p) ==
    /\ p \in DOMAIN procs /\ procs[p].pc = "record"
    /\ LET st == procs[p]
       IN Move(p, [st EXCEPT !.pc = "exists", !.todo = Tail(st.todo),
                             !.current_transcodes =
                                 IF ArtifactAt(st) \in DOMAIN tdisk
                                 THEN st.current_transcodes \cup {TranscodePath(Head(st.todo))}
                                 ELSE st.current_transcodes])
    /\ UNCHANGED <<tdisk, raceQuiet>>

\* indexer.py 120-123, utils.py 625-629: every item is made, and
\* cleanup_old_transcodes lists the transcode directory
ItemsDone(p) ==
    /\ p \in DOMAIN procs /\ procs[p].pc = "exists" /\ procs[p].todo = <<>>
    /\ Move(p, [procs[p] EXCEPT !.pc = "cleanup", !.todo = CleanupListing])
    /\ UNCHANGED <<tdisk, raceQuiet>>

\* utils.py 630-632: the next file of the listing, wanted or not
CleanupCheck(p) ==
    /\ p \in DOMAIN procs /\ procs[p].pc = "cleanup" /\ procs[p].todo # <<>>
    /\ LET st == procs[p]
           n == Head(st.todo)
       IN IF /\ n \in DOMAIN tdisk
             /\ PathStr(<<<<".", "v", "i", "d", "e", "x", "e", "r">>, <<"t", "r", "a", "n", "s", "c", "o", "d", "e", "s">>>>, n) \notin st.current_transcodes
          THEN Move(p, [st EXCEPT !.pc = "cleanup_unlink"])
          ELSE Move(p, [st EXCEPT !.todo = Tail(st.todo)])
    /\ UNCHANGED <<tdisk, raceQuiet>>

\* utils.py 633-636: transcode_file.unlink()
CleanupUnlink(p) ==
    /\ p \in DOMAIN procs /\ procs[p].pc = "cleanup_unlink"
    /\ Unlink(p, Head(procs[p].todo),
              [procs[p] EXCEPT !.pc = "cleanup", !.todo = Tail(procs[p].todo)])
    /\ UNCHANGED raceQuiet

\* indexer.py 138-144: build_index returns its catalog
Return(p) ==
    /\ p \in DOMAIN procs /\ procs[p].pc = "cleanup" /\ procs[p].todo = <<>>
    /\ Move(p, [procs[p] EXCEPT !.pc = "returned"])
    /\ UNCHANGED <<tdisk, raceQuiet>>

NextRace ==
    \E p \in Processes :
        \/ Launch(p)
        \/ PurgeProbe(p)
        \/ PurgeUnlink(p)
        \/ PurgeDone(p)
        \/ ItemExists(p)
        \/ ItemProbe(p)
        \/ ItemUnlink(p)
        \/ ItemAbsent(p)
        \/ EncodeStart(p)
        \/ EncodeEnd(p)
        \/ ItemRecord(p)
        \/ ItemsDone(p)
        \/ CleanupCheck(p)
        \/ CleanupUnlink(p)
        \/ Return(p)

SpecRace == InitRace /\ [][NextRace]_vars

\* both processes have returned
BothReturned ==
    DOMAIN procs = Processes /\ \A p \in Processes : procs[p].pc = "returned"

\* the file names of the transcoded paths of a catalog
RecordedNames(p) == {PathName(path) : path \in procs[p].current_transcodes}

\* C27: once two processes that ran build_index with transcode generation on the
\* same root side by side have both returned, every transcoded path of either
\* catalog names a file of the transcode directory.
C27_RaceLeavesRecordedArtifacts ==
    BothReturned => \A p \in Processes : RecordedNames(p) \subseteq DOMAIN tdisk
----------------------------------------------------------------------------
(* C28 *)

\* the media items of the returned catalog that carry a transcoded field
Transcoded == {item \in CatalogMedia(result.items) : "transcoded" \in DOMAIN item}

\* C28: in a returned catalog no two media items of different source files carry
\* the same transcoded path, and the artifact of every item that carries one was
\* encoded from the item's own source file.
C28_NoSharedTranscode ==
    Returned =>
        /\ \A one, other \in Transcoded :
              one.path # other.path => one.transcoded # other.transcoded
        /\ \A item \in Transcoded :
              PathName(item.transcoded) \in DOMAIN tdisk
                 => tdisk[PathName(item.transcoded)].src = item.path
----------------------------------------------------------------------------
(* C29 *)

\* the file names of the transcoded paths of the returned catalog
ReferencedNames == {PathName(item.transcoded) : item \in Transcoded}

\* C29: when a run with transcode generation has returned and no unlink has
\* raised, every transcoded path of the catalog names a file of the transcode
\* directory, and the directory holds no other file.
C29_CleanupKeepsReferenced ==
    (Returned /\ gen /\ ~unlinkFailed) => DOMAIN tdisk = ReferencedNames
----------------------------------------------------------------------------
(* C30 *)

\* a step of a run without transcode generation: its start, or a step while it
\* is under way
DisabledRunStep ==
    \/ pc = "idle" /\ pc' # "idle" /\ ~gen'
    \/ pc # "idle" /\ ~gen

\* the media items of the returned catalog whose artifact is in the transcode
\* directory, encoded from them and valid
WithValidArtifact ==
    {item \in CatalogMedia(result.items) :
        /\ ArtifactOf(item.path) \in DOMAIN tdisk
        /\ tdisk[ArtifactOf(item.path)].valid
        /\ tdisk[ArtifactOf(item.path)].src = item.path}

\* C30: a run without transcode generation leaves the transcode directory as
\* it is: no step of it creates or unlinks a file there, it has no pre-flight
\* pass and calls no encoder, and no item of its catalog carries a transcoded
\* field, an item with a valid artifact on disk included.
C30_DisabledRunLeavesTranscodes ==
    /\ [][DisabledRunStep => tdisk' = tdisk /\ pc' # "preflight"]_vars
    /\ []((pc # "idle" /\ ~gen) => encodes = {})
    /\ []((Returned /\ ~gen) => Transcoded = {} /\ encodes = {})

\* a run without transcode generation has returned an item whose valid artifact,
\* left by the run before, is on disk as that run left it
C30_Witness ==
    /\ Returned /\ ~gen
    /\ tdisk = prev.tdisk
    /\ prev.gen
    /\ WithValidArtifact # {}
====
